---- MODULE Spec2Model ----
(***************************************************************************)
(* Model of the scanSpace image processor: the output-path naming engine   *)
(* (ImageProcessor/fileNamingSchema.py) and the multi-group calibration /  *)
(* batch-dispatch pipeline of MainWindow (image_space.py).                 *)
(*                                                                         *)
(* Text is modelled as a sequence of one-character strings, so that the    *)
(* regular-expression passes, str.replace, str.split and the os.path       *)
(* helpers are computed character by character as the code computes them.  *)
(* os.path is modelled with its POSIX behaviour.                           *)
(***************************************************************************)
EXTENDS Integers, Sequences, FiniteSets, TLC

\* ------------------------------------------------------------------------
\* Text helpers (Python str / re primitives)
\* ------------------------------------------------------------------------

Digits == <<"0", "1", "2", "3", "4", "5", "6", "7", "8", "9">>

IsDigit(c) == \E k \in 1..10 : Digits[k] = c

DigitVal(c) == (CHOOSE k \in 1..10 : Digits[k] = c) - 1

MinOf(S) == CHOOSE x \in S : \A y \in S : x <= y

\* the least element of a set of indices, 0 for the empty set
FirstOr0(S) == IF S = {} THEN 0 ELSE MinOf(S)

\* s[i..] (Python s[i-1:])
Drop(s, i) == SubSeq(s, i, Len(s))

\* does p occur in s at index i
MatchAt(s, i, p) ==
    /\ i >= 1
    /\ i + Len(p) - 1 <= Len(s)
    /\ \A k \in 1..Len(p) : s[i + k - 1] = p[k]

\* str.find from index i: least index >= i where p occurs, 0 when absent
Find(s, p, i) == FirstOr0({k \in i..(Len(s) - Len(p) + 1) : MatchAt(s, k, p)})

\* p in s
Contains(s, p) == Find(s, p, 1) # 0

\* s.endswith(p)
EndsWith(s, p) == Len(p) <= Len(s) /\ MatchAt(s, Len(s) - Len(p) + 1, p)

\* s.count(c) for a single character c
CountChar(s, c) == Cardinality({k \in 1..Len(s) : s[k] = c})

\* s.split(sep), sep non-empty: the parts between non-overlapping
\* occurrences of sep, scanned from the left; i is the first occurrence
RECURSIVE Split(_, _)
SplitAt(s, sep, i) ==
    IF i = 0 THEN <<s>>
    ELSE <<SubSeq(s, 1, i - 1)>> \o Split(Drop(s, i + Len(sep)), sep)

Split(s, sep) == SplitAt(s, sep, Find(s, sep, 1))

\* sep.join(parts)
RECURSIVE Join(_, _)
Join(parts, sep) ==
    IF Len(parts) = 0 THEN <<>>
    ELSE IF Len(parts) = 1 THEN parts[1]
    ELSE parts[1] \o sep \o Join(Tail(parts), sep)

\* s.replace(old, new), old non-empty: the replaced text is not rescanned;
\* i is the first occurrence of old
RECURSIVE Replace(_, _, _)
ReplaceAt(s, old, new, i) ==
    IF i = 0 THEN s
    ELSE SubSeq(s, 1, i - 1) \o new \o Replace(Drop(s, i + Len(old)), old, new)

Replace(s, old, new) == ReplaceAt(s, old, new, Find(s, old, 1))

\* int(digits)
RECURSIVE StrToNat(_)
StrToNat(d) ==
    IF Len(d) = 0 THEN 0
    ELSE 10 * StrToNat(SubSeq(d, 1, Len(d) - 1)) + DigitVal(d[Len(d)])

\* str(n), n >= 0
RECURSIVE NatToStr(_)
NatToStr(n) ==
    IF n < 10 THEN <<Digits[n + 1]>>
    ELSE NatToStr(n \div 10) \o <<Digits[(n % 10) + 1]>>

\* s.zfill(width) for an unsigned s
RECURSIVE zfill(_, _)
zfill(s, width) == IF Len(s) >= width THEN s ELSE zfill(<<"0">> \o s, width)

\* number of leading digits of s from index i
RECURSIVE DigitRun(_, _)
DigitRun(s, i) ==
    IF i <= Len(s) /\ IsDigit(s[i]) THEN 1 + DigitRun(s, i + 1) ELSE 0

\* ordered dict lookups: a context is a sequence of <<key, value>> pairs
CtxHas(ctx, key) == \E k \in 1..Len(ctx) : ctx[k][1] = key

CtxGet(ctx, key, default) ==
    IF CtxHas(ctx, key)
    THEN ctx[CHOOSE k \in 1..Len(ctx) : ctx[k][1] = key][2]
    ELSE default

\* ------------------------------------------------------------------------
\* FileNamingSchema (ImageProcessor/fileNamingSchema.py)
\* ------------------------------------------------------------------------

DQ == "\""

\* the keys of r'(r|o|oc|s)', in the order the alternation tries them
AdvKeys == << <<"r">>, <<"o">>, <<"o", "c">>, <<"s">> >>

\* r'\[K([+-])"([^"]+)"\]' at i for the key K, with j the position of the
\* operation sign and q the first quote after the opening one: q when the
\* pattern matches, 0 when it does not
AdvClose(s, i, K, j, q) ==
    IF /\ MatchAt(s, i, <<"[">> \o K)
       /\ j + 1 <= Len(s)
       /\ s[j] \in {"+", "-"}
       /\ s[j + 1] = DQ
       /\ q > j + 2
       /\ q + 1 <= Len(s)
       /\ s[q + 1] = "]"
    THEN q ELSE 0

\* index of the closing quote when the pattern matches s at i for K
AdvMatchEnd(s, i, K) ==
    AdvClose(s, i, K, i + 1 + Len(K), Find(s, <<DQ>>, i + 3 + Len(K)))

AdvMatches(s, i) == \E k \in 1..Len(AdvKeys) : AdvMatchEnd(s, i, AdvKeys[k]) # 0

AdvKeyAt(s, i) ==
    AdvKeys[MinOf({k \in 1..Len(AdvKeys) : AdvMatchEnd(s, i, AdvKeys[k]) # 0})]

\* the '+' branch returning the one part after the first separator
separator_part_second_only(value, operation, separator, found) ==
    IF operation = "-"
    THEN IF found THEN Split(value, separator)[1] ELSE value
    ELSE IF found THEN Split(value, separator)[2] ELSE <<>>

\* the branches of replace_advanced_separator for the looked-up value
separator_part(value, operation, separator, found) ==
    IF operation = "-"
    THEN IF found THEN Split(value, separator)[1] ELSE value
    ELSE IF found THEN Join(Tail(Split(value, separator)), separator) ELSE <<>>

separator_of(value, operation, separator) ==
    separator_part(value, operation, separator, Contains(value, separator))

replace_advanced_separator(context, placeholder, operation, separator) ==
    separator_of(CtxGet(context, placeholder, <<>>), operation, separator)

\* re.sub(r'\[(r|o|oc|s)([+-])"([^"]+)"\]', replace_advanced_separator, s):
\* i is the leftmost match, K its key, q its closing quote
RECURSIVE sub_advanced(_, _)
sub_advanced_match(s, context, i, K, q) ==
    SubSeq(s, 1, i - 1)
    \o replace_advanced_separator(context, K, s[i + 1 + Len(K)],
                                  SubSeq(s, i + Len(K) + 3, q - 1))
    \o sub_advanced(Drop(s, q + 2), context)

sub_advanced_key(s, context, i, K) ==
    sub_advanced_match(s, context, i, K, AdvMatchEnd(s, i, K))

sub_advanced_at(s, context, i) ==
    IF i = 0 THEN s ELSE sub_advanced_key(s, context, i, AdvKeyAt(s, i))

sub_advanced(s, context) ==
    sub_advanced_at(s, context, FirstOr0({i \in 1..Len(s) : AdvMatches(s, i)}))

\* r'\[n(\d*)\]' matches s at i, d being the length of the digit run
NumClose(s, i, d) ==
    /\ MatchAt(s, i, <<"[", "n">>)
    /\ i + 2 + d <= Len(s)
    /\ s[i + 2 + d] = "]"

NumMatches(s, i) == NumClose(s, i, DigitRun(s, i + 2))

\* [n4] replaced by the number without the zero padding
replace_numbered_n_unpadded(context, padding) ==
    CtxGet(context, <<"n">>, <<"1">>)

replace_numbered_n(context, padding) ==
    IF Len(padding) > 0
    THEN zfill(CtxGet(context, <<"n">>, <<"1">>), StrToNat(padding))
    ELSE CtxGet(context, <<"n">>, <<"1">>)

\* re.sub(r'\[n(\d*)\]', replace_numbered_n, s): i is the leftmost match,
\* d the length of its digit run
RECURSIVE sub_numbered(_, _)
sub_numbered_match(s, context, i, d) ==
    SubSeq(s, 1, i - 1)
    \o replace_numbered_n(context, SubSeq(s, i + 2, i + 1 + d))
    \o sub_numbered(Drop(s, i + 3 + d), context)

sub_numbered_at(s, context, i) ==
    IF i = 0 THEN s ELSE sub_numbered_match(s, context, i, DigitRun(s, i + 2))

sub_numbered(s, context) ==
    sub_numbered_at(s, context, FirstOr0({i \in 1..Len(s) : NumMatches(s, i)}))

\* for key, value in context.items(): if key != 'n': result.replace(...)
RECURSIVE sub_plain(_, _, _)
sub_plain(s, context, k) ==
    IF k > Len(context) THEN s
    ELSE IF context[k][1] = <<"n">> THEN sub_plain(s, context, k + 1)
    ELSE sub_plain(Replace(s, <<"[">> \o context[k][1] \o <<"]">>, context[k][2]),
                   context, k + 1)

\* the three substitution passes of parse_schema
substitute(schema, context) ==
    sub_plain(sub_numbered(sub_advanced(schema, context), context), context, 1)

KnownExtensions ==
    { <<".", "j", "p", "g">>, <<".", "p", "n", "g">>,
      <<".", "t", "i", "f", "f">>, <<".", "e", "x", "r">> }

DefaultExt == <<".", "j", "p", "g">>

\* any(filename.endswith(ext) for ext in [...])
HasKnownExtension(filename) == \E ext \in KnownExtensions : EndsWith(filename, ext)

\* the output extension appended whether or not the name already has one
name_and_directory_always_appends(filename, directory_parts, has_extension, ext, bare) ==
    << Join(directory_parts, <<"/">>),
       IF has_extension THEN filename
       ELSE IF Len(filename) = 0 THEN <<"i", "m", "a", "g", "e">> \o ext
       ELSE filename \o ext >>

\* the rules without the default name "image": an empty last part stays empty
name_and_directory_no_default(filename, directory_parts, has_extension, ext, bare) ==
    << Join(IF bare /\ has_extension THEN Append(directory_parts, filename)
            ELSE directory_parts, <<"/">>),
       IF bare THEN IF ~has_extension THEN filename \o ext ELSE <<>>
       ELSE filename >>

\* the filename and directory rules of parse_schema; bare: the last part is
\* non-empty and has no known extension
name_and_directory(filename, directory_parts, has_extension, ext, bare) ==
    LET named == IF bare
                 THEN IF ~has_extension THEN filename \o ext ELSE <<>>
                 ELSE filename
        dirs  == IF bare /\ has_extension
                 THEN Append(directory_parts, filename)
                 ELSE directory_parts
    IN  << Join(dirs, <<"/">>),
           IF Len(named) = 0 /\ ~has_extension
           THEN <<"i", "m", "a", "g", "e">> \o ext
           ELSE named >>

split_filename(filename, directory_parts, has_extension, ext) ==
    name_and_directory(filename, directory_parts, has_extension, ext,
                       Len(filename) > 0 /\ ~HasKnownExtension(filename))

\* parts = result.split('/'); filename = parts[-1]; directory_parts = parts[:-1]
split_result(parts, has_extension, ext) ==
    split_filename(parts[Len(parts)], SubSeq(parts, 1, Len(parts) - 1),
                   has_extension, ext)

\* FileNamingSchema.parse_schema: <<output_directory, filename>>
parse_schema(schema, context) ==
    IF Len(schema) = 0 THEN << <<>>, <<>> >>
    ELSE split_result(Split(substitute(schema, context), <<"/">>),
                      Contains(schema, <<"[", "e", "]">>),
                      CtxGet(context, <<"e">>, DefaultExt))

\* os.path.basename (POSIX)
basename(p) ==
    LET idx == {k \in 1..Len(p) : p[k] = "/"}
    IN  IF idx = {} THEN p ELSE Drop(p, (CHOOSE k \in idx : \A m \in idx : m <= k) + 1)

\* os.path.splitext(name)[0]: cut at the last dot unless it leads the name
splitext_root(name) ==
    LET idx == {k \in 1..Len(name) : name[k] = "."}
        last == CHOOSE k \in idx : \A m \in idx : m <= k
    IN  IF idx = {} THEN name
        ELSE IF \E m \in 1..(last - 1) : name[m] # "." THEN SubSeq(name, 1, last - 1)
        ELSE name

\* re.sub(r'_?\d+$', '', s): the trailing digit run, starting at i, and one
\* underscore before it
strip_from(s, i) ==
    IF i = 0 THEN s
    ELSE IF i > 1 /\ s[i - 1] = "_" THEN SubSeq(s, 1, i - 2)
    ELSE SubSeq(s, 1, i - 1)

strip_trailing_number(s) ==
    strip_from(s, FirstOr0({i \in 1..Len(s) : \A k \in i..Len(s) : IsDigit(s[k])}))

\* the context dict for the file name without its extension
context_of(filename_no_ext, root_folder, custom_name, image_number, output_extension, group_name) ==
    << << <<"r">>,      basename(root_folder) >>,
       << <<"s">>,      group_name >>,
       << <<"e">>,      output_extension >>,
       << <<"o", "c">>, strip_trailing_number(filename_no_ext) >>,
       << <<"c">>,      custom_name >>,
       << <<"o">>,      filename_no_ext >>,
       << <<"n">>,      NatToStr(image_number) >> >>

\* FileNamingSchema.build_context
build_context(input_path, root_folder, custom_name, image_number, output_extension, group_name) ==
    context_of(splitext_root(basename(input_path)), root_folder, custom_name,
               image_number, output_extension, group_name)

\* re.findall(r'\[([^\]]+)\]', s): the bracket bodies, scanned from the left
BodyMatches(s, i) ==
    /\ i <= Len(s) /\ s[i] = "["
    /\ Find(s, <<"]">>, i + 1) > i + 1

RECURSIVE bracket_bodies(_)
bracket_body(s, i, q) ==
    <<SubSeq(s, i + 1, q - 1)>> \o bracket_bodies(Drop(s, q + 1))

bracket_bodies_at(s, i) ==
    IF i = 0 THEN <<>> ELSE bracket_body(s, i, Find(s, <<"]">>, i + 1))

bracket_bodies(s) ==
    bracket_bodies_at(s, FirstOr0({i \in 1..Len(s) : BodyMatches(s, i)}))

\* re.match(r'(r|o|oc|s)[+-]"[^"]+"', body): anchored at the start only
IsSeparatorForm(body) ==
    \E k \in 1..Len(AdvKeys) :
        LET K == AdvKeys[k]
            j == Len(K) + 1
        IN  /\ MatchAt(body, 1, K)
            /\ j + 1 <= Len(body)
            /\ body[j] \in {"+", "-"}
            /\ body[j + 1] = DQ
            /\ Find(body, <<DQ>>, j + 2) > j + 2

\* the keys of FileNamingSchema.placeholders
KnownPlaceholders ==
    { <<"r">>, <<"s">>, <<"e">>, <<"o", "c">>, <<"c">>, <<"o">>, <<"n">>, <<"/">> }

IsKnownBody(body) ==
    \/ Len(body) > 1 /\ body[1] = "n" /\ \A k \in 2..Len(body) : IsDigit(body[k])
    \/ body = <<"n">>
    \/ IsSeparatorForm(body)
    \/ body \in KnownPlaceholders

\* the separators of re.findall(r'\[(r|o|oc|s)([+-])"([^"]+)"\]', s)
RECURSIVE advanced_separators(_)
advanced_separator(s, i, K, q) ==
    <<SubSeq(s, i + Len(K) + 3, q - 1)>> \o advanced_separators(Drop(s, q + 2))

advanced_separators_key(s, i, K) == advanced_separator(s, i, K, AdvMatchEnd(s, i, K))

advanced_separators_at(s, i) ==
    IF i = 0 THEN <<>> ELSE advanced_separators_key(s, i, AdvKeyAt(s, i))

advanced_separators(s) ==
    advanced_separators_at(s, FirstOr0({i \in 1..Len(s) : AdvMatches(s, i)}))

MaxSeparatorLen == 10

\* re.sub(r'"[^"]*"', '""', s): quoted sections emptied
RECURSIVE strip_quoted(_)
strip_quoted_pair(s, i, q) ==
    SubSeq(s, 1, i - 1) \o <<DQ, DQ>> \o strip_quoted(Drop(s, q + 1))

strip_quoted_at(s, i) ==
    IF i = 0 THEN s ELSE strip_quoted_pair(s, i, Find(s, <<DQ>>, i + 1))

strip_quoted(s) ==
    strip_quoted_at(s, FirstOr0({i \in 1..Len(s) :
                                    s[i] = DQ /\ Find(s, <<DQ>>, i + 1) # 0}))

InvalidChars == {"<", ">", ":", "|", "?", "*"}

\* no "Unknown placeholder" error
all_known(bodies) == \A k \in 1..Len(bodies) : IsKnownBody(bodies[k])

\* no "Separator too long" error
all_short(separators) ==
    \A k \in 1..Len(separators) : Len(separators[k]) <= MaxSeparatorLen

\* no "Invalid character" error
no_invalid_chars(temp_schema) ==
    \A k \in 1..Len(temp_schema) : temp_schema[k] \notin InvalidChars

\* FileNamingSchema.validate_schema: is_valid (no error collected)
validate_schema(schema) ==
    /\ Len(schema) > 0
    /\ CountChar(schema, "[") = CountChar(schema, "]")
    /\ all_known(bracket_bodies(schema))
    /\ all_short(advanced_separators(schema))
    /\ no_invalid_chars(strip_quoted(schema))

\* os.path.join(a, b) (POSIX)
path_join(a, b) ==
    IF Len(b) > 0 /\ b[1] = "/" THEN b
    ELSE IF Len(a) = 0 \/ a[Len(a)] = "/" THEN a \o b
    ELSE a \o <<"/">> \o b

\* os.path.dirname(p) (POSIX): the head up to the last slash, without its
\* trailing slashes unless it consists of slashes only
RECURSIVE rstrip_slash(_)
rstrip_slash(s) ==
    IF Len(s) > 0 /\ s[Len(s)] = "/" THEN rstrip_slash(SubSeq(s, 1, Len(s) - 1)) ELSE s

dirname_of(head, stripped) == IF Len(stripped) = 0 THEN head ELSE stripped

dirname_head(head) == dirname_of(head, rstrip_slash(head))

dirname(p) ==
    LET idx == {k \in 1..Len(p) : p[k] = "/"}
    IN  dirname_head(IF idx = {} THEN <<>>
                     ELSE SubSeq(p, 1, CHOOSE k \in idx : \A m \in idx : m <= k))

\* f"{image_number:04d}"
FallbackPad == 4

\* f"{Path(input_path).stem}_{image_number:04d}{output_extension}"
fallback_filename(input_path, image_number, output_extension) ==
    splitext_root(basename(input_path)) \o <<"_">>
    \o zfill(NatToStr(image_number), FallbackPad) \o output_extension

\* os.path.join(full_dir, filename) for the parsed directory and filename
join_output(output_base_dir, directory, filename, fallback) ==
    path_join(IF Len(directory) > 0 THEN path_join(output_base_dir, directory)
              ELSE output_base_dir,
              IF Len(filename) = 0 THEN fallback ELSE filename)

output_path(parsed, output_base_dir, fallback) ==
    [raised |-> FALSE,
     path |-> join_output(output_base_dir, parsed[1], parsed[2], fallback)]

\* apply_naming_schema: raised = the ValueError of an invalid schema,
\* otherwise the full output path
apply_naming_schema(schema, input_path, output_base_dir, custom_name, image_number, output_extension, root_folder, group_name) ==
    IF ~validate_schema(schema)
    THEN [raised |-> TRUE, path |-> <<>>]
    ELSE output_path(parse_schema(schema,
                                  build_context(input_path, root_folder, custom_name,
                                                image_number, output_extension,
                                                group_name)),
                     output_base_dir,
                     fallback_filename(input_path, image_number, output_extension))

\* ------------------------------------------------------------------------
\* MainWindow (image_space.py): state
\* ------------------------------------------------------------------------

VARIABLES
    items,               \* imagesListWidget: the Qt.UserRole metadata of each row
    chart_groups,        \* self.chart_groups: list of [chart_path, group_name]
    group_calibrations,  \* self.group_calibrations: ordered dict group -> entry
    calibration_file,    \* self.calibration_file (<<>> is None)
    chart_swatches,      \* self.chart_swatches (NoSwatches is None)
    current_chart_group, \* self.current_chart_group (<<>> is None)
    settings,            \* QSettings / widgets read by the run: thr, dont_use_chart,
                         \* use_export_schema, export_schema, use_precalc,
                         \* precalc_rows
    processing_active,   \* self.processing_active
    total_images,        \* self.total_images
    finished_images,     \* self.finished_images
    global_start,        \* self.global_start is set
    active_workers,      \* self.active_workers: worker ids
    workers,             \* every ImageCorrectionWorker created so far
    pool_queue,          \* QThreadPool: runnables waiting for a thread
    events,              \* status signals queued to the main thread
    rename_map,          \* the rename map of the last dispatched run
    hist,                \* observations of the behaviour (not program state)
    eval,                \* schema evaluation under test (EvalSpec only)
    preview              \* RAW preview loading: current_raw_path, pending_raw_path,
                         \* is_loading_raw, current_raw_array, raw_load_timer and
                         \* the RawLoadWorkers in flight

vars == << items, chart_groups, group_calibrations, calibration_file,
           chart_swatches, current_chart_group, settings, processing_active,
           total_images, finished_images, global_start, active_workers,
           workers, pool_queue, events, rename_map, hist, eval, preview >>

\* bounds of the model
MaxOps      == 4   \* user actions (browse, set chart, button click) in one behaviour
MaxThr      == 2   \* largest value of the threads spin box
PoolThreads == 1   \* QThreadPool.maxThreadCount
MaxPending  == 1   \* status signals waiting in the main thread's event queue

AllImagesName == <<"A", "l", "l", " ", "I", "m", "a", "g", "e", "s">>
GroupA == <<"A">>
GroupB == <<"B">>

ImgA1 == <<"a", "_", "1", ".", "n", "e", "f">>
ImgA2 == <<"a", "_", "2", ".", "n", "e", "f">>
ImgB1 == <<"b", "_", "1", ".", "n", "e", "f">>

\* rawImagesDirectoryLineEdit, outputDirectoryLineEdit, imageFormatComboBox,
\* newImageNameLineEdit as the run reads them
RawDir     == <<"/", "i", "n", "/", "p", "_", "1">>
OutDir     == <<"o", "u", "t">>
OutputExt  == <<".", "j", "p", "g">>
CustomName == <<>>

\* what _collect_images_with_grouping can return: group name -> image paths,
\* in directory-listing order
Folders ==
    { << [name |-> AllImagesName, paths |-> <<ImgA2, ImgA1>>] >>,
      << [name |-> GroupA, paths |-> <<ImgA1>>],
         [name |-> GroupB, paths |-> <<ImgB1>>] >> }

\* the images on which the external corrector fails
FailingImages == {ImgB1}

\* export schemas the settings can hold
SchemaSharedDir == <<"[", "r", "]", "/", "[", "o", "]", "[", "n", "4", "]", "[", "e", "]">>
SchemaGroupDir  == <<"[", "s", "]", "/", "[", "o", "c", "]", "_", "[", "n", "]", "[", "e", "]">>
SchemaInvalid   == <<"[", "x", "]", "/", "[", "o", "]", "[", "e", "]">>

SchemaSettings ==
    { [use |-> FALSE, schema |-> SchemaSharedDir],
      [use |-> TRUE,  schema |-> SchemaSharedDir],
      [use |-> TRUE,  schema |-> SchemaGroupDir],
      [use |-> TRUE,  schema |-> SchemaInvalid] }

\* calibration data: swatches name the image they were measured on
NoSwatches     == [src |-> <<>>, count |-> 0]
DefaultChart   == <<"d", "e", "f", ".", "n", "p", "y">>
SwatchRows     == 24
DetectorCounts == {0, SwatchRows}   \* swatch rows the detector returns, 0 = no chart found

\* rows of the (N, 3) arrays in the .npy files of the chart folder
ChartFileRows == {SwatchRows, SwatchRows - 6}

\* usePrecalcChartCheckbox and the file selected in precalcChartComboBox
PrecalcCharts ==
    {[use |-> FALSE, rows |-> 0]} \cup {[use |-> TRUE, rows |-> n] : n \in ChartFileRows}

TmpFile(chart_path) == <<"t", "m", "p", ":">> \o chart_path

\* ------------------------------------------------------------------------
\* dict and list helpers
\* ------------------------------------------------------------------------

\* group_calibrations is a dict in insertion order: sequence of
\* [group, file, swatches]
CalHas(cal, g) == \E k \in 1..Len(cal) : cal[k].group = g

CalGet(cal, g) == cal[CHOOSE k \in 1..Len(cal) : cal[k].group = g]

CalPut(cal, g, file, swatches) ==
    LET e == [group |-> g, file |-> file, swatches |-> swatches]
    IN  IF CalHas(cal, g)
        THEN [k \in 1..Len(cal) |-> IF cal[k].group = g THEN e ELSE cal[k]]
        ELSE Append(cal, e)

\* code points order of the characters that occur in image paths
Alphabet == << " ", ".", "/", "0", "1", "2", "3", "4", "5", "6", "7", "8", "9",
               ":", "A", "B", "I", "_", "a", "b", "d", "e", "f", "g", "l", "m",
               "n", "p", "s", "t", "y" >>

Ord(c) == CHOOSE k \in 1..Len(Alphabet) : Alphabet[k] = c

\* a < b for Python str
RECURSIVE StrLess(_, _)
StrLess(a, b) ==
    IF Len(b) = 0 THEN FALSE
    ELSE IF Len(a) = 0 THEN TRUE
    ELSE IF a[1] = b[1] THEN StrLess(Tail(a), Tail(b))
    ELSE Ord(a[1]) < Ord(b[1])

\* sorted(paths) for distinct paths
RECURSIVE sorted(_)
sorted(paths) ==
    IF Len(paths) = 0 THEN <<>>
    ELSE LET m == CHOOSE k \in 1..Len(paths) :
                      \A j \in 1..Len(paths) : j = k \/ StrLess(paths[k], paths[j])
         IN  <<paths[m]>> \o sorted(SubSeq(paths, 1, m - 1) \o SubSeq(paths, m + 1, Len(paths)))

Header(g) ==
    [is_group_header |-> TRUE, group_name |-> g, input_path |-> <<>>,
     status |-> "raw", calibration |-> <<>>, chart |-> FALSE]

ImageItem(p, g) ==
    [is_group_header |-> FALSE, group_name |-> g, input_path |-> p,
     status |-> "raw", calibration |-> <<>>, chart |-> FALSE]

\* MainWindow._populate_grouped_list_widget
RECURSIVE ImageRowsOf(_, _)
ImageRowsOf(paths, g) ==
    IF Len(paths) = 0 THEN <<>>
    ELSE <<ImageItem(paths[1], g)>> \o ImageRowsOf(Tail(paths), g)

RECURSIVE populate_grouped_list_widget(_, _)
populate_grouped_list_widget(image_groups, k) ==
    IF k > Len(image_groups) THEN <<>>
    ELSE (IF Len(image_groups) > 1 THEN <<Header(image_groups[k].name)>> ELSE <<>>)
         \o ImageRowsOf(sorted(image_groups[k].paths), image_groups[k].name)
         \o populate_grouped_list_widget(image_groups, k + 1)

\* rows of the list that are images
ImageRows == {i \in 1..Len(items) : ~items[i].is_group_header}

ImagePaths == {items[i].input_path : i \in ImageRows}

\* MainWindow.load_default_color_chart through load_selected_precalc_chart,
\* as apply_settings runs it: an array of shape (rows, 3) passes the shape
\* test whatever its number of rows
PrecalcFile(use_precalc) == IF use_precalc THEN DefaultChart ELSE <<>>

load_default_color_chart(chart_path, rows) == [src |-> chart_path, count |-> rows]

PrecalcSwatches(use_precalc, rows) ==
    IF use_precalc THEN load_default_color_chart(DefaultChart, rows) ELSE NoSwatches

\* ------------------------------------------------------------------------
\* MainWindow: construction, browse_images, set_selected_as_chart
\* ------------------------------------------------------------------------

NoEval == [schema |-> <<>>, input |-> <<>>, number |-> 0, context |-> <<>>,
           step |-> "idle", directory |-> <<>>, filename |-> <<>>,
           raised |-> FALSE, path |-> <<>>,
           key |-> <<>>, separator |-> <<>>, before |-> <<>>, after |-> <<>>,
           root |-> basename(RawDir),
           call |-> "schema", group_images |-> <<>>, thr |-> 0, chunks |-> <<>>,
           rules |-> <<>>, image_groups |-> <<>>,
           document |-> <<>>, file |-> <<>>, reported |-> FALSE,
           numbers |-> <<>>]

\* the RAW preview state of MainWindow.__init__: no path, no array, the timer
\* stopped, no RawLoadWorker started (<<>> is None)
NoPreview ==
    [current_raw_path |-> <<>>, pending_raw_path |-> <<>>, is_loading_raw |-> FALSE,
     current_raw_array |-> <<>>, raw_load_timer |-> FALSE, loads |-> <<>>]

InitHist ==
    [ops |-> 0, run |-> 0, browses |-> 0, outcome |-> "none",
     declared |-> FALSE, run_terminal |-> {}, run_list |-> <<>>,
     extract_calls |-> {}, by_fallback |-> {}, done_after_cancel |-> FALSE,
     last_chart |-> {}]

\* MainWindow.__init__ followed by apply_settings
Init ==
    /\ items = <<>>
    /\ chart_groups = <<>>
    /\ group_calibrations = <<>>
    /\ \E thr \in 1..MaxThr, dont \in BOOLEAN, sch \in SchemaSettings, pre \in PrecalcCharts :
          settings = [thr |-> thr, dont_use_chart |-> dont,
                      use_export_schema |-> sch.use, export_schema |-> sch.schema,
                      use_precalc |-> pre.use, precalc_rows |-> pre.rows]
    /\ calibration_file = PrecalcFile(settings.use_precalc)
    /\ chart_swatches = PrecalcSwatches(settings.use_precalc, settings.precalc_rows)
    /\ current_chart_group = <<>>
    /\ processing_active = FALSE
    /\ total_images = 0
    /\ finished_images = 0
    /\ global_start = FALSE
    /\ active_workers = <<>>
    /\ workers = <<>>
    /\ pool_queue = <<>>
    /\ events = <<>>
    /\ rename_map = <<>>
    /\ hist = InitHist
    /\ eval = NoEval
    /\ preview = NoPreview

\* MainWindow.browse_images: reset_all_state (which ends in apply_settings),
\* then the list is filled from the collected groups
browse_images(image_groups) ==
    /\ hist.ops < MaxOps
    /\ calibration_file' = PrecalcFile(settings.use_precalc)
    /\ chart_swatches' = PrecalcSwatches(settings.use_precalc, settings.precalc_rows)
    /\ group_calibrations' = <<>>
    /\ chart_groups' = <<>>
    /\ current_chart_group' = <<>>
    /\ items' = populate_grouped_list_widget(image_groups, 1)
    /\ hist' = [hist EXCEPT !.ops = @ + 1, !.browses = @ + 1, !.last_chart = {}]
    /\ UNCHANGED << settings, processing_active, total_images, finished_images,
                    global_start, active_workers, workers, pool_queue, events,
                    rename_map, eval, preview >>

\* the chart assigned to a group: first match in chart_groups, <<>> when none
ChartOf(charts, g) ==
    LET idx == {k \in 1..Len(charts) : charts[k][2] = g}
    IN  IF idx = {} THEN <<>> ELSE charts[MinOf(idx)][1]

\* the new assignment added without removing the group's previous one
assign_chart_keeping_previous(charts, existing_chart, chart_path, selected_group) ==
    Append(charts, <<chart_path, selected_group>>)

\* chart_groups after the assignment: the group's existing assignment is
\* filtered out, the new one appended
assign_chart(charts, existing_chart, chart_path, selected_group) ==
    Append(IF existing_chart # <<>>
           THEN SelectSeq(charts,
                          LAMBDA cg : ~(cg[1] = existing_chart /\ cg[2] = selected_group))
           ELSE charts,
           <<chart_path, selected_group>>)

\* MainWindow.set_selected_as_chart on the selected row i; detection is
\* "deferred" in manual selection mode, otherwise detect_chart runs and the
\* detector returns `found` swatch rows (0: no chart in the image)
set_selected_as_chart(i, deferred, found) ==
    /\ hist.ops < MaxOps
    /\ i \in 1..Len(items)
    /\ hist' = [hist EXCEPT
                  !.ops = @ + 1,
                  !.last_chart =
                      IF items[i].is_group_header THEN @
                      ELSE {cg \in @ : cg[2] # items[i].group_name}
                           \cup {<<items[i].input_path, items[i].group_name>>}]
    /\ IF items[i].is_group_header
       THEN UNCHANGED << items, chart_groups, group_calibrations, calibration_file,
                         chart_swatches, current_chart_group >>
       ELSE
       LET selected_group == items[i].group_name
           chart_path     == items[i].input_path
           existing_chart == ChartOf(chart_groups, selected_group)
           first_old      == {k \in ImageRows : /\ items[k].input_path = existing_chart
                                                /\ items[k].group_name = selected_group}
           detected       == ~deferred /\ found # 0
           swatches       == [src |-> chart_path, count |-> found]
       IN  /\ items' = [k \in 1..Len(items) |->
                          IF k = i THEN [items[k] EXCEPT !.chart = TRUE]
                          ELSE IF existing_chart # <<>> /\ first_old # {} /\ k = MinOf(first_old)
                          THEN [items[k] EXCEPT !.chart = FALSE]
                          ELSE items[k]]
           /\ chart_groups' = assign_chart(chart_groups, existing_chart, chart_path,
                                           selected_group)
           /\ current_chart_group' = selected_group
           \* detect_chart: the first detected checker is stored
           /\ IF detected
              THEN /\ calibration_file' = TmpFile(chart_path)
                   /\ chart_swatches' = swatches
                   /\ group_calibrations' =
                          CalPut(group_calibrations, selected_group,
                                 TmpFile(chart_path), swatches)
              ELSE UNCHANGED << calibration_file, chart_swatches, group_calibrations >>
    /\ UNCHANGED << settings, processing_active, total_images, finished_images,
                    global_start, active_workers, workers, pool_queue, events,
                    rename_map, eval, preview >>

\* ------------------------------------------------------------------------
\* MainWindow.start_processing
\* ------------------------------------------------------------------------

\* image_groups: {group_name: [image_paths]} in first-appearance order
DictHas(d, name) == \E k \in 1..Len(d) : d[k].name = name

DictAppend(d, name, p) ==
    IF DictHas(d, name)
    THEN [k \in 1..Len(d) |->
            IF d[k].name = name THEN [d[k] EXCEPT !.paths = Append(@, p)] ELSE d[k]]
    ELSE Append(d, [name |-> name, paths |-> <<p>>])

RECURSIVE collect_image_groups(_, _, _)
collect_image_groups(its, k, acc) ==
    IF k > Len(its) THEN acc
    ELSE IF its[k].is_group_header THEN collect_image_groups(its, k + 1, acc)
    ELSE collect_image_groups(its, k + 1,
                              DictAppend(acc, its[k].group_name, its[k].input_path))

InSeq(s, x) == \E k \in 1..Len(s) : s[k] = x

\* the default calibration stored for the group whether or not it exists
RECURSIVE check_calibrations_any_default(_, _, _, _, _, _, _, _)
check_calibrations_any_default(its, k, charts, cal_file, swatches, cal, missing, fb) ==
    IF k > Len(its) THEN [cal |-> cal, missing |-> missing, fb |-> fb]
    ELSE IF its[k].is_group_header
    THEN check_calibrations_any_default(its, k + 1, charts, cal_file, swatches,
                                        cal, missing, fb)
    ELSE
    LET g == its[k].group_name
    IN  IF CalHas(cal, g) \/ ChartOf(charts, g) # <<>>
        THEN check_calibrations_any_default(its, k + 1, charts, cal_file, swatches,
                                            cal, missing, fb)
        ELSE check_calibrations_any_default(its, k + 1, charts, cal_file, swatches,
                                            CalPut(cal, g, cal_file, swatches),
                                            missing, fb \cup {g})

\* first loop: per image, check the calibration of its group; returns the
\* registry, the missing groups and the groups that were given the default
RECURSIVE check_calibrations(_, _, _, _, _, _, _, _)
check_calibrations(its, k, charts, cal_file, swatches, cal, missing, fb) ==
    IF k > Len(its) THEN [cal |-> cal, missing |-> missing, fb |-> fb]
    ELSE IF its[k].is_group_header
    THEN check_calibrations(its, k + 1, charts, cal_file, swatches, cal, missing, fb)
    ELSE
    LET g == its[k].group_name
    IN  IF CalHas(cal, g) \/ ChartOf(charts, g) # <<>>
        THEN check_calibrations(its, k + 1, charts, cal_file, swatches, cal, missing, fb)
        ELSE IF cal_file # <<>>
        THEN check_calibrations(its, k + 1, charts, cal_file, swatches,
                                CalPut(cal, g, cal_file, swatches), missing, fb \cup {g})
        ELSE check_calibrations(its, k + 1, charts, cal_file, swatches, cal,
                                IF InSeq(missing, g) THEN missing ELSE Append(missing, g), fb)

\* MainWindow.extract_chart_swatches: only a (24, 3) result is returned
extract_chart_swatches(chart_path, found) ==
    IF found = SwatchRows
    THEN [swatches |-> [src |-> chart_path, count |-> found], file |-> TmpFile(chart_path)]
    ELSE [swatches |-> NoSwatches, file |-> <<>>]

\* second loop: for group_name in list(missing_calibrations), extract from
\* the group's chart
RECURSIVE extract_missing(_, _, _, _, _, _, _, _)
extract_missing(snapshot, k, charts, found, cal, missing, calls, current) ==
    IF k > Len(snapshot)
    THEN [cal |-> cal, missing |-> missing, calls |-> calls, current |-> current]
    ELSE
    LET g     == snapshot[k]
        chart == ChartOf(charts, g)
        res   == extract_chart_swatches(chart, found)
    IN  IF chart = <<>>
        THEN extract_missing(snapshot, k + 1, charts, found, cal, missing, calls, current)
        ELSE IF res.swatches # NoSwatches
        THEN extract_missing(snapshot, k + 1, charts, found,
                             CalPut(cal, g, res.file, res.swatches),
                             SelectSeq(missing, LAMBDA m : m # g),
                             calls \cup {chart}, g)
        ELSE extract_missing(snapshot, k + 1, charts, found, cal, missing,
                             calls \cup {chart}, g)

\* third loop: metadata['calibration'] = group_calibrations[group]['file'];
\* the lookup raises KeyError for a group without an entry
RECURSIVE update_metadata(_, _, _, _)
update_metadata(its, k, cal, dont) ==
    IF k > Len(its) THEN [items |-> its, raised |-> FALSE]
    ELSE IF its[k].is_group_header \/ dont THEN update_metadata(its, k + 1, cal, dont)
    ELSE IF ~CalHas(cal, its[k].group_name) THEN [items |-> its, raised |-> TRUE]
    ELSE update_metadata([its EXCEPT ![k].calibration = CalGet(cal, its[k].group_name).file],
                         k + 1, cal, dont)

\* a dict path -> number as a function
MapPut(m, p, n) == [q \in (DOMAIN m) \cup {p} |-> IF q = p THEN n ELSE m[q]]

EmptyMap == [q \in {} |-> 0]

\* image_groups flattened to <<group_name, image_path>> in iteration order
RECURSIVE flatten_groups(_, _)
flatten_groups(image_groups, k) ==
    IF k > Len(image_groups) THEN <<>>
    ELSE [j \in 1..Len(image_groups[k].paths) |->
            <<image_groups[k].name, image_groups[k].paths[j]>>]
         \o flatten_groups(image_groups, k + 1)

\* the directory of the output path found with the dummy image number 1
dummy_output(schema, group_name, image_path) ==
    apply_naming_schema(schema, image_path, OutDir, CustomName, 1, OutputExt,
                        basename(RawDir), group_name)

\* the except branch numbering the image by its position instead of 1
RECURSIVE group_by_output_dir_positional(_, _, _, _, _)
group_by_output_dir_positional(schema, pairs, k, dirs, rmap) ==
    IF k > Len(pairs) THEN [dirs |-> dirs, rmap |-> rmap]
    ELSE
    LET out == dummy_output(schema, pairs[k][1], pairs[k][2])
    IN  IF out.raised
        THEN group_by_output_dir_positional(schema, pairs, k + 1, dirs,
                 IF pairs[k][2] \in DOMAIN rmap THEN rmap ELSE MapPut(rmap, pairs[k][2], k))
        ELSE group_by_output_dir_positional(schema, pairs, k + 1,
                 DictAppend(dirs, dirname(out.path), pairs[k][2]), rmap)

\* output_dir_groups and the numbers given in the except branch
RECURSIVE group_by_output_dir(_, _, _, _, _)
group_by_output_dir(schema, pairs, k, dirs, rmap) ==
    IF k > Len(pairs) THEN [dirs |-> dirs, rmap |-> rmap]
    ELSE
    LET out == dummy_output(schema, pairs[k][1], pairs[k][2])
    IN  IF out.raised
        THEN group_by_output_dir(schema, pairs, k + 1, dirs,
                 IF pairs[k][2] \in DOMAIN rmap THEN rmap ELSE MapPut(rmap, pairs[k][2], 1))
        ELSE group_by_output_dir(schema, pairs, k + 1,
                 DictAppend(dirs, dirname(out.path), pairs[k][2]), rmap)

\* for idx, image_path in enumerate(paths): rename_map[image_path] = idx + 1,
\* for every list of the dict
RECURSIVE enumerate_lists(_, _, _, _)
enumerate_lists(d, k, j, rmap) ==
    IF k > Len(d) THEN rmap
    ELSE IF j > Len(d[k].paths) THEN enumerate_lists(d, k + 1, 1, rmap)
    ELSE enumerate_lists(d, k, j + 1, MapPut(rmap, d[k].paths[j], j))

\* the numbering carried on from one group to the next
build_rename_map_continuous(use_export_schema, schema, image_groups) ==
    enumerate_lists(<< [name |-> <<>>,
                        paths |-> [k \in 1..Len(flatten_groups(image_groups, 1)) |->
                                     flatten_groups(image_groups, 1)[k][2]]] >>,
                    1, 1, EmptyMap)

\* the numbering restarted in every group even under a schema
build_rename_map_per_group(use_export_schema, schema, image_groups) ==
    enumerate_lists(image_groups, 1, 1, EmptyMap)

\* the rename map of start_processing
build_rename_map(use_export_schema, schema, image_groups) ==
    IF use_export_schema /\ Len(schema) > 0
    THEN LET byDir == group_by_output_dir(schema, flatten_groups(image_groups, 1),
                                          1, <<>>, EmptyMap)
         IN  enumerate_lists(byDir.dirs, 1, 1, byDir.rmap)
    ELSE enumerate_lists(image_groups, 1, 1, EmptyMap)

MaxOf2(a, b) == IF a >= b THEN a ELSE b

\* for i in range(0, len(group_images), size): group_images[i: i + size]
RECURSIVE slice_chunks(_, _, _)
slice_chunks(group_images, size, i) ==
    IF i >= Len(group_images) THEN <<>>
    ELSE <<SubSeq(group_images, i + 1,
                  IF i + size <= Len(group_images) THEN i + size ELSE Len(group_images))>>
         \o slice_chunks(group_images, size, i + size)

\* one chunk per worker and no more: the images left over are not batched
chunks_of_one_per_worker(group_images, thr) ==
    SubSeq(slice_chunks(group_images, MaxOf2(1, Len(group_images) \div thr), 0), 1, thr)

\* the chunks followed by one more, empty, chunk
chunks_of_with_empty_chunk(group_images, thr) ==
    Append(slice_chunks(group_images, MaxOf2(1, Len(group_images) \div thr), 0), <<>>)

\* chunks that each run one image into the next chunk
chunks_of_overlapping(group_images, thr) ==
    LET size == MaxOf2(1, Len(group_images) \div thr)
        n    == (Len(group_images) + size - 1) \div size
    IN  [k \in 1..n |->
           SubSeq(group_images, (k - 1) * size + 1,
                  IF k * size + 1 <= Len(group_images) THEN k * size + 1
                  ELSE Len(group_images))]

chunks_of(group_images, thr) ==
    slice_chunks(group_images, MaxOf2(1, Len(group_images) \div thr), 0)

NewWorker(chunk, group_name, swatches, run) ==
    [chunk |-> chunk, group |-> group_name, swatches |-> swatches, run |-> run,
     cancelled |-> FALSE, pos |-> 1, busy |-> FALSE, st |-> "queued"]

\* a runnable that returned from run()
DoneWorker ==
    [chunk |-> <<>>, group |-> <<>>, swatches |-> NoSwatches, run |-> 0,
     cancelled |-> FALSE, pos |-> 0, busy |-> FALSE, st |-> "done"]

RECURSIVE WorkersOfChunks(_, _, _, _, _)
WorkersOfChunks(chunks, k, group_name, swatches, run) ==
    IF k > Len(chunks) THEN <<>>
    ELSE <<NewWorker(chunks[k], group_name, swatches, run)>>
         \o WorkersOfChunks(chunks, k + 1, group_name, swatches, run)

\* the dispatch loop: one ImageCorrectionWorker per chunk of every group,
\* carrying the swatches of the group's calibration (None when the chart is
\* not used)
RECURSIVE create_workers(_, _, _, _, _, _)
create_workers(image_groups, k, cal, dont, thr, run) ==
    IF k > Len(image_groups) THEN <<>>
    ELSE LET g == image_groups[k].name
             swatches == IF dont THEN NoSwatches ELSE CalGet(cal, g).swatches
         IN  WorkersOfChunks(chunks_of(image_groups[k].paths, thr), 1, g, swatches, run)
             \o create_workers(image_groups, k + 1, cal, dont, thr, run)

Running(ws) == {w \in 1..Len(ws) : ws[w].st = "running"}

\* QThreadPool.start for each new worker in turn: it runs at once while a
\* pool thread is free, otherwise it waits in the queue
RECURSIVE pool_start_all(_, _, _, _)
pool_start_all(new, k, ws, queue) ==
    IF k > Len(new) THEN [workers |-> ws, queue |-> queue]
    ELSE IF Cardinality(Running(ws)) < PoolThreads
    THEN pool_start_all(new, k + 1, Append(ws, [new[k] EXCEPT !.st = "running"]), queue)
    ELSE pool_start_all(new, k + 1, Append(ws, new[k]), Append(queue, Len(ws) + 1))

RECURSIVE SeqFromTo(_, _)
SeqFromTo(a, b) == IF a > b THEN <<>> ELSE <<a>> \o SeqFromTo(a + 1, b)

\* how start_processing ends: the two early returns, the KeyError of the
\* metadata loop, or the dispatch
run_outcome(missing, dont, image_groups, raised) ==
    IF Len(missing) > 0 /\ ~dont THEN "missing"
    ELSE IF Len(image_groups) = 0 THEN "empty"
    ELSE IF raised THEN "keyerror"
    ELSE "dispatched"

\* MainWindow.start_processing; `found` is what the swatch detector returns
\* if extract_chart_swatches is called
start_processing(found) ==
    LET image_groups == collect_image_groups(items, 1, <<>>)
        dont == settings.dont_use_chart
        chk  == check_calibrations(items, 1, chart_groups, calibration_file,
                                   chart_swatches, group_calibrations, <<>>, {})
        ext  == extract_missing(chk.missing, 1, chart_groups, found, chk.cal,
                                chk.missing, {}, current_chart_group)
        meta == update_metadata(items, 1, ext.cal, dont)
        outcome == run_outcome(ext.missing, dont, image_groups, meta.raised)
        created == create_workers(image_groups, 1, ext.cal, dont, settings.thr,
                                  hist.run + 1)
        started == pool_start_all(created, 1, workers, pool_queue)
    IN  /\ group_calibrations' = ext.cal
        /\ current_chart_group' = ext.current
        /\ IF outcome = "dispatched"
           THEN /\ items' = meta.items
                /\ total_images' = Cardinality(ImageRows)
                /\ finished_images' = 0
                /\ global_start' = TRUE
                /\ rename_map' = build_rename_map(settings.use_export_schema,
                                                  settings.export_schema, image_groups)
                /\ workers' = started.workers
                /\ pool_queue' = started.queue
                /\ active_workers' = SeqFromTo(Len(workers) + 1, Len(started.workers))
                /\ hist' = [hist EXCEPT !.ops = @ + 1, !.run = @ + 1, !.outcome = outcome,
                                        !.declared = FALSE, !.run_terminal = {},
                                        !.run_list = flatten_groups(image_groups, 1),
                                        !.extract_calls = ext.calls,
                                        !.by_fallback = chk.fb]
           ELSE /\ items' = IF outcome = "keyerror" THEN meta.items ELSE items
                /\ active_workers' = <<>>
                /\ hist' = [hist EXCEPT !.ops = @ + 1, !.outcome = outcome,
                                        !.extract_calls = ext.calls,
                                        !.by_fallback = chk.fb]
                /\ UNCHANGED << total_images, finished_images, global_start,
                                rename_map, workers, pool_queue >>
        /\ UNCHANGED << chart_groups, calibration_file, chart_swatches, settings,
                        events, eval, preview >>

\* the cancellation that leaves the queued chunks in the pool
cancel_processing_keep_queue ==
    /\ pool_queue' = pool_queue
    /\ workers' = [w \in 1..Len(workers) |->
                     IF InSeq(active_workers, w)
                     /\ workers[w].st # "done"
                     THEN [workers[w] EXCEPT !.cancelled = TRUE]
                     ELSE workers[w]]
    /\ active_workers' = <<>>
    /\ processing_active' = FALSE
    /\ hist' = [hist EXCEPT !.ops = @ + 1]
    /\ UNCHANGED << items, chart_groups, group_calibrations, calibration_file,
                    chart_swatches, current_chart_group, settings, total_images,
                    finished_images, global_start, events, rename_map, eval, preview >>

\* MainWindow.cancel_processing
cancel_processing ==
    /\ pool_queue' = <<>>
    /\ workers' = [w \in 1..Len(workers) |->
                     IF InSeq(active_workers, w)
                     /\ workers[w].st # "done"
                     THEN [workers[w] EXCEPT !.cancelled = TRUE]
                     ELSE workers[w]]
    /\ active_workers' = <<>>
    /\ processing_active' = FALSE
    /\ hist' = [hist EXCEPT !.ops = @ + 1]
    /\ UNCHANGED << items, chart_groups, group_calibrations, calibration_file,
                    chart_swatches, current_chart_group, settings, total_images,
                    finished_images, global_start, events, rename_map, eval, preview >>

\* MainWindow.process_images_button_clicked: starts a run, or cancels the
\* one in progress
process_images_button_clicked ==
    /\ hist.ops < MaxOps
    /\ IF ~processing_active
       THEN /\ processing_active' = TRUE
            /\ \E found \in DetectorCounts : start_processing(found)
       ELSE cancel_processing

\* ------------------------------------------------------------------------
\* Worker pool and ImageCorrectionWorker (ImageProcessor/imageProcessorWorker.py)
\* ------------------------------------------------------------------------

\* a pool thread takes the next queued runnable
pool_take ==
    /\ Len(pool_queue) > 0
    /\ Cardinality(Running(workers)) < PoolThreads
    /\ workers' = [workers EXCEPT ![Head(pool_queue)].st = "running"]
    /\ pool_queue' = Tail(pool_queue)
    /\ UNCHANGED << items, chart_groups, group_calibrations, calibration_file,
                    chart_swatches, current_chart_group, settings, processing_active,
                    total_images, finished_images, global_start, active_workers,
                    events, rename_map, hist, eval, preview >>

StatusEvent(w, status) ==
    [image_path |-> workers[w].chunk[workers[w].pos], status |-> status,
     run |-> workers[w].run]

\* between two images the task checks its cancellation flag, then reports
\* 'started' for the next image of its chunk; after the last image, or when
\* cancelled, run() returns
worker_next_image(w) ==
    /\ w \in Running(workers)
    /\ ~workers[w].busy
    /\ IF workers[w].cancelled \/ workers[w].pos > Len(workers[w].chunk)
       THEN /\ workers' = [workers EXCEPT ![w] = DoneWorker]
            /\ UNCHANGED events
       ELSE /\ Len(events) < MaxPending
            /\ workers' = [workers EXCEPT ![w].busy = TRUE]
            /\ events' = Append(events, StatusEvent(w, "started"))
    /\ UNCHANGED << items, chart_groups, group_calibrations, calibration_file,
                    chart_swatches, current_chart_group, settings, processing_active,
                    total_images, finished_images, global_start, active_workers,
                    pool_queue, rename_map, hist, eval, preview >>

\* the correction of the current image ends: 'finished' or 'error' is reported
worker_image_done(w) ==
    /\ w \in Running(workers)
    /\ workers[w].busy
    /\ Len(events) < MaxPending
    /\ workers' = [workers EXCEPT ![w].busy = FALSE, ![w].pos = @ + 1]
    /\ events' = Append(events,
                        StatusEvent(w, IF workers[w].chunk[workers[w].pos] \in FailingImages
                                       THEN "error" ELSE "finished"))
    /\ hist' = [hist EXCEPT !.done_after_cancel = @ \/ workers[w].cancelled]
    /\ UNCHANGED << items, chart_groups, group_calibrations, calibration_file,
                    chart_swatches, current_chart_group, settings, processing_active,
                    total_images, finished_images, global_start, active_workers,
                    pool_queue, rename_map, eval, preview >>

\* ------------------------------------------------------------------------
\* MainWindow.update_image_status, run for the next queued status signal
\* ------------------------------------------------------------------------

Terminal == {"finished", "error"}

update_image_status ==
    /\ Len(events) > 0
    /\ LET ev    == Head(events)
           match == {i \in ImageRows : items[i].input_path = ev.image_path}
           count == IF ev.status \in Terminal THEN finished_images + 1 ELSE finished_images
           complete == ev.status \in Terminal /\ count >= total_images /\ global_start
       IN  /\ events' = Tail(events)
           /\ items' = IF match = {} THEN items
                       ELSE [items EXCEPT ![MinOf(match)].status = ev.status]
           /\ finished_images' = count
           \* processing_complete
           /\ processing_active' = IF complete THEN FALSE ELSE processing_active
           /\ hist' = [hist EXCEPT
                         !.declared = @ \/ complete,
                         !.run_terminal = IF ev.status \in Terminal /\ ev.run = hist.run
                                          THEN @ \cup {ev.image_path} ELSE @]
    /\ UNCHANGED << chart_groups, group_calibrations, calibration_file,
                    chart_swatches, current_chart_group, settings, total_images,
                    global_start, active_workers, workers, pool_queue, rename_map, eval, preview >>

\* ------------------------------------------------------------------------
\* MainWindow._collect_images_with_grouping and _determine_image_group
\* ------------------------------------------------------------------------

\* str.strip() of the blanks at both ends
RECURSIVE lstrip(_)
lstrip(s) == IF Len(s) > 0 /\ s[1] = " " THEN lstrip(Tail(s)) ELSE s

RECURSIVE rstrip(_)
rstrip(s) == IF Len(s) > 0 /\ s[Len(s)] = " " THEN rstrip(SubSeq(s, 1, Len(s) - 1)) ELSE s

strip(s) == rstrip(lstrip(s))

\* [part for part in relative_path.split('/') if part]
path_parts_of(relative_path) ==
    SelectSeq(Split(relative_path, <<"/">>), LAMBDA part : Len(part) > 0)

RootFilesName == <<"R", "o", "o", "t", " ", "F", "i", "l", "e", "s">>

subfolder_group(path_parts) ==
    IF Len(path_parts) > 0 THEN path_parts[1] ELSE RootFilesName

\* the prefix rule for the stripped separator
prefix_group(separator, filename) ==
    IF Len(separator) > 0 /\ Contains(filename, separator)
    THEN SubSeq(filename, 1, Find(filename, separator, 1) - 1)
    ELSE splitext_root(filename)

\* the prefix rule tried before the subfolder rule
determine_image_group_prefix_first(rules, relative_path, filename) ==
    IF rules.group_by_prefix /\ Len(rules.prefix_string) > 0
    THEN prefix_group(strip(rules.prefix_string), filename)
    ELSE IF rules.group_by_subfolder /\ Len(relative_path) > 0
    THEN subfolder_group(path_parts_of(relative_path))
    ELSE AllImagesName

\* MainWindow._determine_image_group
determine_image_group(rules, relative_path, filename) ==
    IF rules.group_by_subfolder /\ Len(relative_path) > 0
    THEN subfolder_group(path_parts_of(relative_path))
    ELSE IF rules.group_by_prefix /\ Len(rules.prefix_string) > 0
    THEN prefix_group(strip(rules.prefix_string), filename)
    ELSE AllImagesName

\* os.path.join(folder, item) for the folder at relative_path under the base
item_path_of(base_folder, f) ==
    path_join(IF Len(f.relative_path) > 0 THEN path_join(base_folder, f.relative_path)
              ELSE base_folder,
              f.item)

\* collect_from_folder over the image files of the tree in the order the
\* recursion visits them; a file below the base folder is visited only
\* when subfolders are looked into
RECURSIVE collect_from_folder(_, _, _, _, _)
collect_from_folder(rules, base_folder, files, k, image_groups) ==
    IF k > Len(files) THEN image_groups
    ELSE IF Len(files[k].relative_path) > 0 /\ ~rules.look_in_subfolders
    THEN collect_from_folder(rules, base_folder, files, k + 1, image_groups)
    ELSE collect_from_folder(rules, base_folder, files, k + 1,
             DictAppend(image_groups,
                        determine_image_group(rules, files[k].relative_path, files[k].item),
                        item_path_of(base_folder, files[k])))

\* without import rules: the files of the base folder itself, in one group
\* named after the folder
base_folder_files(base_folder, files) ==
    [k \in 1..Len(files) |-> item_path_of(base_folder, files[k])]

\* MainWindow._collect_images_with_grouping
collect_images_with_grouping(rules, base_folder, files) ==
    IF rules.use_import_rules
    THEN collect_from_folder(rules, base_folder, files, 1, <<>>)
    ELSE << [name |-> basename(base_folder),
             paths |-> base_folder_files(base_folder,
                           SelectSeq(files, LAMBDA f : Len(f.relative_path) = 0))] >>

\* ------------------------------------------------------------------------
\* _build_project_data (ImageProcessor/function_tools.py): the image_groups
\* entry of one group in the project export document
\* ------------------------------------------------------------------------

NoCalibration == [group |-> <<>>, file |-> <<>>, swatches |-> NoSwatches]

\* fallback_calibration: the first group entry, else the global swatches
export_fallback(cal, dont, cal_file, swatches) ==
    IF dont THEN NoCalibration
    ELSE IF Len(cal) > 0 THEN cal[1]
    ELSE IF swatches # NoSwatches
    THEN [group |-> <<>>, file |-> cal_file, swatches |-> swatches]
    ELSE NoCalibration

export_image_group(cal, dont, cal_file, swatches, g) ==
    LET calibration_data ==
            IF dont THEN NoCalibration
            ELSE IF CalHas(cal, g) THEN CalGet(cal, g)
            ELSE export_fallback(cal, dont, cal_file, swatches)
    IN  IF calibration_data # NoCalibration
        THEN [has_calibration |-> TRUE, chart_file |-> calibration_data.file,
              chart_swatches |-> calibration_data.swatches,
              using_fallback_calibration |-> ~CalHas(cal, g)]
        ELSE [has_calibration |-> FALSE, chart_file |-> <<>>,
              chart_swatches |-> NoSwatches, using_fallback_calibration |-> FALSE]

\* ------------------------------------------------------------------------
\* export_current_project (ImageProcessor/function_tools.py): the sanitized
\* document is a sequence of values in the order json.dump reaches them,
\* each one serializable or not; a file is the sequence of chunks written to
\* it, <<>> when it does not exist
\* ------------------------------------------------------------------------

OpenChunk  == <<"{">>
CloseChunk == <<"}">>

\* json.dump(data, f, indent=2): the chunks of the encoder are written to the
\* file one by one, and the encoder raises TypeError at the first value it
\* cannot serialize
RECURSIVE json_dump(_, _, _)
json_dump(data, k, f) ==
    IF k > Len(data) THEN [file |-> Append(f, CloseChunk), raised |-> FALSE]
    ELSE IF ~data[k].serializable THEN [file |-> f, raised |-> TRUE]
    ELSE json_dump(data, k + 1, Append(f, data[k].path))

\* the complete text of a document
complete_document(data) ==
    <<OpenChunk>> \o [k \in 1..Len(data) |-> data[k].path] \o <<CloseChunk>>

\* export_current_project after the dialog was accepted: open(file_path, 'w')
\* truncates the target, json.dump writes into it, and an exception is
\* caught and reported; the file is left as it is
export_current_project(data, f) ==
    LET dumped == json_dump(data, 1, <<OpenChunk>>)
    IN  [file |-> dumped.file, reported |-> dumped.raised]

\* ------------------------------------------------------------------------
\* MainWindow: RAW preview loading. preview_selected schedules a load with the
\* single-shot raw_load_timer, _on_raw_load_timer starts a RawLoadWorker in
\* the thread pool, and the worker's loaded / error signal is handled on the
\* main thread. An array is named by the path it was loaded from.
\* ------------------------------------------------------------------------

\* MainWindow._clear_preview_state
clear_preview_state(p) ==
    [p EXCEPT !.current_raw_path = <<>>, !.current_raw_array = <<>>,
              !.is_loading_raw = FALSE]

\* preview_selected for an unprocessed RAW image that is not the current one:
\* the path becomes pending and the timer runs (it keeps running when the
\* same path was already pending, and is restarted otherwise)
schedule_raw_load(p, input_path) ==
    [p EXCEPT !.pending_raw_path = input_path, !.raw_load_timer = TRUE]

\* preview_selected for any other image: the timer is stopped, the pending
\* path dropped and the preview state cleared
cancel_raw_load(p) ==
    clear_preview_state([p EXCEPT !.raw_load_timer = FALSE, !.pending_raw_path = <<>>])

\* MainWindow.preview_selected with row i current (0: no current item). The
\* images of the list are RAW files without an output_path, so the test for
\* a load is input_path != self.current_raw_path
preview_selected(i) ==
    /\ hist.ops < MaxOps
    /\ i \in 0..Len(items)
    /\ hist' = [hist EXCEPT !.ops = @ + 1]
    /\ preview' =
          IF i = 0 THEN clear_preview_state(preview)
          ELSE IF items[i].is_group_header THEN preview
          ELSE IF items[i].input_path # preview.current_raw_path
          THEN schedule_raw_load(preview, items[i].input_path)
          ELSE cancel_raw_load(preview)
    /\ UNCHANGED << items, chart_groups, group_calibrations, calibration_file,
                    chart_swatches, current_chart_group, settings, processing_active,
                    total_images, finished_images, global_start, active_workers,
                    workers, pool_queue, events, rename_map, eval >>

\* MainWindow._load_raw_for_preview: skipped while a load is marked as running
\* or when another path is pending, else a RawLoadWorker is started
load_raw_for_preview(p, raw_path) ==
    IF p.is_loading_raw THEN p
    ELSE IF raw_path # p.pending_raw_path /\ p.pending_raw_path # <<>> THEN p
    ELSE [p EXCEPT !.is_loading_raw = TRUE, !.current_raw_path = raw_path,
                   !.loads = Append(@, raw_path)]

\* the body of _on_raw_load_timer once the timer is no longer active
raw_load_timer_fired(p) ==
    IF p.pending_raw_path # <<>> /\ ~p.is_loading_raw
    THEN [load_raw_for_preview(p, p.pending_raw_path) EXCEPT !.pending_raw_path = <<>>]
    ELSE p

\* MainWindow._on_raw_load_timer: the timeout of the single-shot timer
on_raw_load_timer ==
    /\ preview.raw_load_timer
    /\ preview' = raw_load_timer_fired([preview EXCEPT !.raw_load_timer = FALSE])
    /\ UNCHANGED << items, chart_groups, group_calibrations, calibration_file,
                    chart_swatches, current_chart_group, settings, processing_active,
                    total_images, finished_images, global_start, active_workers,
                    workers, pool_queue, events, rename_map, hist, eval >>

\* the relevance test of _on_raw_loaded, taken after is_loading_raw was reset
raw_loaded_checked(p, raw_array) ==
    IF p.current_raw_path # p.pending_raw_path /\ p.pending_raw_path # <<>> THEN p
    ELSE [p EXCEPT !.current_raw_array = raw_array]

\* MainWindow._on_raw_loaded: the signal carries the array and no path
on_raw_loaded(p, raw_array) ==
    raw_loaded_checked([p EXCEPT !.is_loading_raw = FALSE], raw_array)

\* MainWindow._on_raw_load_error
on_raw_load_error(p) == [p EXCEPT !.is_loading_raw = FALSE]

\* loads without the k-th
without_load(loads, k) ==
    SubSeq(loads, 1, k - 1) \o SubSeq(loads, k + 1, Len(loads))

\* a RawLoadWorker in flight ends: its loaded signal (the array read from its
\* own path) or its error signal is delivered to the main thread
raw_load_finished(k, loaded) ==
    /\ k \in 1..Len(preview.loads)
    /\ preview' =
          IF loaded
          THEN on_raw_loaded([preview EXCEPT !.loads = without_load(@, k)],
                             preview.loads[k])
          ELSE on_raw_load_error([preview EXCEPT !.loads = without_load(@, k)])
    /\ UNCHANGED << items, chart_groups, group_calibrations, calibration_file,
                    chart_swatches, current_chart_group, settings, processing_active,
                    total_images, finished_images, global_start, active_workers,
                    workers, pool_queue, events, rename_map, hist, eval >>

\* ------------------------------------------------------------------------
\* Specification of the window
\* ------------------------------------------------------------------------

Next ==
    \/ \E f \in Folders : browse_images(f)
    \/ \E i \in 1..Len(items), deferred \in BOOLEAN, found \in DetectorCounts :
          set_selected_as_chart(i, deferred, found)
    \/ process_images_button_clicked
    \/ pool_take
    \/ \E w \in 1..Len(workers) : worker_next_image(w)
    \/ \E w \in 1..Len(workers) : worker_image_done(w)
    \/ update_image_status

\* the window with the naming schema switched off and no precalculated chart
RunInit ==
    /\ Init
    /\ ~settings.use_export_schema
    /\ ~settings.use_precalc

Spec == RunInit /\ [][Next]_vars

\* the handlers of the main thread alone, for every configuration: what
\* start_processing plans and dispatches before any pool thread is scheduled
PlanNext ==
    \/ \E f \in Folders : browse_images(f)
    \/ \E i \in 1..Len(items), deferred \in BOOLEAN, found \in DetectorCounts :
          set_selected_as_chart(i, deferred, found)
    \/ process_images_button_clicked

PlanSpec == Init /\ [][PlanNext]_vars

\* the preview handlers on a browsed folder, with the window otherwise idle
PreviewInit ==
    /\ RunInit
    /\ settings.thr = 1
    /\ ~settings.dont_use_chart

PreviewNext ==
    \/ \E f \in Folders : browse_images(f)
    \/ \E i \in 0..Len(items) : preview_selected(i)
    \/ on_raw_load_timer
    \/ \E k \in 1..Len(preview.loads), loaded \in BOOLEAN : raw_load_finished(k, loaded)

PreviewSpec == PreviewInit /\ [][PreviewNext]_vars

\* the event loop delivers the timeout of an active timer and the signal of
\* a worker that has finished; the user is free to stop acting
PreviewFairness ==
    /\ WF_vars(on_raw_load_timer)
    /\ WF_vars(\E k \in 1..Len(preview.loads), loaded \in BOOLEAN :
                   raw_load_finished(k, loaded))

PreviewLiveSpec == PreviewSpec /\ PreviewFairness

\* ------------------------------------------------------------------------
\* Specification of the schema engine: parse_schema and apply_naming_schema
\* applied to schemas and contexts drawn from bounded sets
\* ------------------------------------------------------------------------

SchemaDoc        == <<"[", "r", "]", "/", "[", "s", "]", "/", "[", "r", "]", "_", "[", "s", "]", "_", "[", "n", "4", "]", "[", "e", "]">>
SchemaAfterSep   == <<"[", "o", "c", "+", DQ, "_", DQ, "]", "[", "n", "4", "]", "[", "e", "]">>
SchemaBeforeSep  == <<"[", "o", "c", "-", DQ, "_", DQ, "]", "[", "n", "4", "]">>
SchemaSplitRoot  == <<"[", "r", "-", DQ, "_", DQ, "]", "/", "[", "r", "+", DQ, "_", DQ, "]", "_", "[", "n", "4", "]">>
SchemaFolderTok  == <<"[", "r", "]", "[", "/", "]", "[", "o", "]", "[", "e", "]">>
SchemaDirOnly    == <<"[", "s", "]", "/">>
SchemaNoExt      == <<"[", "o", "]", "_", "[", "n", "2", "]">>
SchemaLiteralExt == <<"[", "o", "]", ".", "p", "n", "g">>
SchemaExtInside  == <<"[", "o", "]", "[", "e", "]", "_", "[", "n", "]">>
SchemaSlashEnd   == <<"[", "r", "]", "/", "[", "o", "]", "[", "e", "]", "/">>
SchemaNumberDir  == <<"[", "s", "]", "_", "[", "n", "]", "/", "[", "o", "]", "[", "e", "]">>
SchemaEmpty      == <<>>

EvalSchemas ==
    { SchemaDoc, SchemaAfterSep, SchemaBeforeSep, SchemaSplitRoot, SchemaFolderTok,
      SchemaDirOnly, SchemaNoExt, SchemaSharedDir, SchemaGroupDir, SchemaInvalid,
      SchemaLiteralExt, SchemaExtInside, SchemaSlashEnd, SchemaNumberDir,
      SchemaEmpty }

ImgCam == <<"C", "A", "M", "0", "1", "_", "I", "M", "G", "0", "0", "1", ".", "N", "E", "F">>

EvalInputs  == {ImgCam, ImgA1, ImgB1}
EvalGroups  == {GroupA, AllImagesName}
EvalNumbers == {1, 12}

\* a context written by hand rather than built from an input path
ContextCam ==
    << << <<"o", "c">>, <<"C", "A", "M", "0", "1", "_", "I", "M", "G", "0", "0", "1">> >>,
       << <<"n">>, <<"1">> >>,
       << <<"e">>, <<".", "j", "p", "g">> >> >>

\* folder and file names that contain bracketed text
RootE  == <<"p", "[", "e", "]">>
RootN4 == <<"[", "n", "4", "]", "_", "x">>
ImgR   == <<"a", "[", "r", "]", ".", "n", "e", "f">>

BracketRoots  == {RootE, RootN4, basename(RawDir)}
BracketInputs == {ImgR, ImgA1}

\* values and separators for the separator tokens [K-"SEP"] and [K+"SEP"]
SeparatorKeys == {AdvKeys[k] : k \in 1..Len(AdvKeys)}

SeparatorValues ==
    { <<>>, <<"a", "b">>, <<"a", "_", "b">>, <<"a", "_", "b", "_", "c">>,
      <<"_", "a">>, <<"a", "_">>, <<"a", "_", "_", "b">>, <<"_", "_", "_">>,
      <<"a", "]", "b">> }

Separators == { <<"_">>, <<"_", "_">>, <<"]">> }

\* a context that holds V under the key K and another text under the other keys
context_with(K, V) ==
    [k \in 1..Len(AdvKeys) |->
        << AdvKeys[k], IF AdvKeys[k] = K THEN V ELSE <<"x", "_", "y">> >>]

\* the schema text of a separator token
separator_token(K, operation, SEP) ==
    <<"[">> \o K \o <<operation, DQ>> \o SEP \o <<DQ, "]">>

\* the image files of the browsed folder, sorted as os.listdir is: two in
\* the folder itself, one two levels down
ImgLoose == <<"c", ".", "n", "e", "f">>

FolderFiles ==
    << [relative_path |-> <<>>, item |-> ImgA1],
       [relative_path |-> <<>>, item |-> ImgLoose],
       [relative_path |-> <<"s", "u", "b", "/", "b", "_", "x">>, item |-> ImgB1] >>

PrefixStrings == { <<>>, <<"_">>, <<" ", "_">>, <<" ">> }

\* the grouping settings apply_settings reads
ImportRules ==
    [use_import_rules : BOOLEAN, look_in_subfolders : BOOLEAN,
     group_by_subfolder : BOOLEAN, group_by_prefix : BOOLEAN,
     prefix_string : PrefixStrings]

\* group sizes and worker counts for the batching of start_processing
MaxGroupSize   == 5
MaxWorkerCount == 3

\* the k-th image path of a group
\* the blocks of the project document, each with a value json can or cannot
\* serialize, and the target file before the export: none, or an earlier
\* complete export
DocumentPaths == << <<"metadata">>, <<"images">>, <<"image_groups">> >>

ExportDocuments ==
    { [k \in 1..Len(DocumentPaths) |-> [path |-> DocumentPaths[k], serializable |-> ok[k]]] :
        ok \in [1..Len(DocumentPaths) -> BOOLEAN] }

EarlierExport == << OpenChunk, <<"metadata">>, CloseChunk >>

ExportTargets == { <<>>, EarlierExport }

ImageNo(k) == <<"i", "_">> \o NatToStr(k)

EvalInit ==
    /\ items = <<>>
    /\ chart_groups = <<>>
    /\ group_calibrations = <<>>
    /\ settings = [thr |-> 1, dont_use_chart |-> FALSE, use_export_schema |-> FALSE,
                   export_schema |-> <<>>, use_precalc |-> FALSE,
                   precalc_rows |-> 0]
    /\ calibration_file = <<>>
    /\ chart_swatches = NoSwatches
    /\ current_chart_group = <<>>
    /\ processing_active = FALSE
    /\ total_images = 0
    /\ finished_images = 0
    /\ global_start = FALSE
    /\ active_workers = <<>>
    /\ workers = <<>>
    /\ pool_queue = <<>>
    /\ events = <<>>
    /\ rename_map = <<>>
    /\ hist = InitHist
    /\ preview = NoPreview
    /\ \/ \E g \in 1..MaxGroupSize, w \in 1..MaxWorkerCount :
             eval = [NoEval EXCEPT !.call = "chunks", !.thr = w,
                                   !.group_images = [k \in 1..g |-> ImageNo(k)]]
       \/ \E rules \in ImportRules :
             eval = [NoEval EXCEPT !.call = "group", !.rules = rules]
       \/ \E data \in ExportDocuments, f \in ExportTargets :
             eval = [NoEval EXCEPT !.call = "export", !.document = data, !.file = f]
       \/ \E schema \in EvalSchemas :
          \/ \E image_groups \in Folders :
                eval = [NoEval EXCEPT !.call = "rename", !.schema = schema,
                                      !.image_groups = image_groups]
          \/ \E input \in EvalInputs, group \in EvalGroups, number \in EvalNumbers :
                eval = [NoEval EXCEPT !.schema = schema, !.input = input,
                                      !.number = number,
                                      !.context = build_context(input, basename(RawDir),
                                                      CustomName, number, OutputExt, group)]
          \/ eval = [NoEval EXCEPT !.schema = schema, !.context = ContextCam]
          \/ \E input \in BracketInputs, root \in BracketRoots :
                eval = [NoEval EXCEPT !.schema = schema, !.input = input,
                                      !.number = 1, !.root = root,
                                      !.context = build_context(input, root, CustomName,
                                                                1, OutputExt, GroupA)]
          \/ \E K \in SeparatorKeys, V \in SeparatorValues, SEP \in Separators :
                eval = [NoEval EXCEPT !.call = "separator", !.key = K,
                                      !.separator = SEP,
                                      !.context = context_with(K, V)]

\* FileNamingSchema.parse_schema on the drawn schema and context
eval_parse_schema ==
    /\ eval.step = "idle"
    /\ eval.call = "schema"
    /\ LET parsed == parse_schema(eval.schema, eval.context)
       IN  eval' = [eval EXCEPT !.step = "parsed", !.directory = parsed[1],
                                !.filename = parsed[2]]
    /\ UNCHANGED << items, chart_groups, group_calibrations, calibration_file,
                    chart_swatches, current_chart_group, settings, processing_active,
                    total_images, finished_images, global_start, active_workers,
                    workers, pool_queue, events, rename_map, hist,
                    preview >>

\* apply_naming_schema for the input path the context was built from
eval_apply_naming_schema ==
    /\ eval.step = "idle"
    /\ eval.call = "schema"
    /\ Len(eval.input) > 0
    /\ LET out == apply_naming_schema(eval.schema, eval.input, OutDir, CustomName,
                                      eval.number, OutputExt, eval.root,
                                      CtxGet(eval.context, <<"s">>, <<>>))
       IN  eval' = [eval EXCEPT !.step = "applied", !.raised = out.raised,
                                !.path = out.path]
    /\ UNCHANGED << items, chart_groups, group_calibrations, calibration_file,
                    chart_swatches, current_chart_group, settings, processing_active,
                    total_images, finished_images, global_start, active_workers,
                    workers, pool_queue, events, rename_map, hist,
                    preview >>

\* the separator pass of parse_schema on the tokens [K-"SEP"] and [K+"SEP"]
\* of the drawn key and separator
eval_separator_tokens ==
    /\ eval.step = "idle"
    /\ eval.call = "separator"
    /\ eval' = [eval EXCEPT
                  !.step = "separated",
                  !.before = sub_advanced(separator_token(eval.key, "-", eval.separator),
                                          eval.context),
                  !.after = sub_advanced(separator_token(eval.key, "+", eval.separator),
                                         eval.context)]
    /\ UNCHANGED << items, chart_groups, group_calibrations, calibration_file,
                    chart_swatches, current_chart_group, settings, processing_active,
                    total_images, finished_images, global_start, active_workers,
                    workers, pool_queue, events, rename_map, hist,
                    preview >>

\* the batching of one group in the dispatch loop of start_processing
eval_chunks_of ==
    /\ eval.step = "idle"
    /\ eval.call = "chunks"
    /\ eval' = [eval EXCEPT !.step = "chunked",
                            !.chunks = chunks_of(eval.group_images, eval.thr)]
    /\ UNCHANGED << items, chart_groups, group_calibrations, calibration_file,
                    chart_swatches, current_chart_group, settings, processing_active,
                    total_images, finished_images, global_start, active_workers,
                    workers, pool_queue, events, rename_map, hist,
                    preview >>

\* the rename map of start_processing for the drawn schema and groups, with
\* schema naming switched on
eval_build_rename_map ==
    /\ eval.step = "idle"
    /\ eval.call = "rename"
    /\ eval' = [eval EXCEPT
                  !.step = "numbered",
                  !.numbers = build_rename_map(TRUE, eval.schema, eval.image_groups)]
    /\ UNCHANGED << items, chart_groups, group_calibrations, calibration_file,
                    chart_swatches, current_chart_group, settings, processing_active,
                    total_images, finished_images, global_start, active_workers,
                    workers, pool_queue, events, rename_map, hist,
                    preview >>

\* export_current_project on the drawn document and target file
eval_export_current_project ==
    /\ eval.step = "idle"
    /\ eval.call = "export"
    /\ eval' = [eval EXCEPT
                  !.step = "exported",
                  !.file = export_current_project(eval.document, eval.file).file,
                  !.reported = export_current_project(eval.document, eval.file).reported]
    /\ UNCHANGED << items, chart_groups, group_calibrations, calibration_file,
                    chart_swatches, current_chart_group, settings, processing_active,
                    total_images, finished_images, global_start, active_workers,
                    workers, pool_queue, events, rename_map, hist,
                    preview >>

\* _collect_images_with_grouping on the browsed folder under the drawn rules
eval_collect_images ==
    /\ eval.step = "idle"
    /\ eval.call = "group"
    /\ eval' = [eval EXCEPT
                  !.step = "collected",
                  !.image_groups = collect_images_with_grouping(eval.rules, RawDir,
                                                                FolderFiles)]
    /\ UNCHANGED << items, chart_groups, group_calibrations, calibration_file,
                    chart_swatches, current_chart_group, settings, processing_active,
                    total_images, finished_images, global_start, active_workers,
                    workers, pool_queue, events, rename_map, hist,
                    preview >>

EvalNext ==
    \/ eval_collect_images
    \/ eval_build_rename_map
    \/ eval_export_current_project
    \/ eval_parse_schema
    \/ eval_apply_naming_schema
    \/ eval_separator_tokens
    \/ eval_chunks_of

EvalSpec == EvalInit /\ [][EvalNext]_vars

\* ------------------------------------------------------------------------
\* Properties
\* ------------------------------------------------------------------------

\* the step in which process_images_button_clicked runs start_processing
StartStep == ~processing_active /\ processing_active'

\* the groups that have an image in the list
GroupsOfRows == {items[i].group_name : i \in ImageRows}

\* a group that has neither a calibration entry nor an assigned chart
Unassigned(g) == ~CalHas(group_calibrations, g) /\ ChartOf(chart_groups, g) = <<>>

SchemaOn == settings.use_export_schema /\ Len(settings.export_schema) > 0

\* the output directory start_processing resolves for the k-th image of the
\* dispatched list
RunDir(k) ==
    dirname(dummy_output(settings.export_schema, hist.run_list[k][1],
                         hist.run_list[k][2]).path)

\* C1: with schema naming on, after start_processing has dispatched, every
\* image's sequence number is one more than the number of images before it
\* in the list that resolve to the same output directory: the numbers of a
\* directory are exactly 1..count, without gaps or duplicates, and rise in
\* list order, also when several groups share the directory.
C1_NumbersPerDirectory ==
    (hist.outcome = "dispatched" /\ SchemaOn /\ validate_schema(settings.export_schema))
    => \A k \in 1..Len(hist.run_list) :
          /\ hist.run_list[k][2] \in DOMAIN rename_map
          /\ rename_map[hist.run_list[k][2]] =
                1 + Cardinality({j \in 1..(k - 1) : RunDir(j) = RunDir(k)})

\* two groups resolved to one directory and were numbered 1, 2 across it
C1_Witness ==
    /\ hist.outcome = "dispatched"
    /\ SchemaOn
    /\ validate_schema(settings.export_schema)
    /\ \E j, k \in 1..Len(hist.run_list) :
          /\ j < k
          /\ hist.run_list[j][1] # hist.run_list[k][1]
          /\ RunDir(j) = RunDir(k)
          /\ rename_map[hist.run_list[j][2]] = 1
          /\ rename_map[hist.run_list[k][2]] = 2

\* C2: when the calibration is not disabled and some group of the list has
\* no calibration entry, no assigned chart and no fallback calibration, a
\* call of start_processing submits no chunk at all: no worker is created,
\* nothing is queued in the pool and no run is counted.
C2_MissingHaltsDispatch ==
    [][ ( /\ StartStep
          /\ ~settings.dont_use_chart
          /\ \E g \in GroupsOfRows : Unassigned(g) /\ calibration_file = <<>> )
        => ( /\ workers' = workers
             /\ pool_queue' = pool_queue
             /\ active_workers' = <<>>
             /\ hist'.run = hist.run ) ]_vars

\* start_processing returned on a missing calibration while another group of
\* the list had a chart assigned
C2_Witness ==
    /\ hist.outcome = "missing"
    /\ ~settings.dont_use_chart
    /\ calibration_file = <<>>
    /\ workers = <<>>
    /\ \E g, h \in GroupsOfRows :
          /\ Unassigned(g)
          /\ ChartOf(chart_groups, h) # <<>>

\* C3: when start_processing resolves the calibration of a group that has an
\* assigned chart but no calibration entry, the swatch detector is invoked
\* on that chart image and the group is not looked up without an entry.
C3_ExtractsFromChart ==
    [][ ( StartStep /\ ~settings.dont_use_chart )
        => \A g \in GroupsOfRows :
              ( ~CalHas(group_calibrations, g) /\ ChartOf(chart_groups, g) # <<>> )
              => ( /\ ChartOf(chart_groups, g) \in hist'.extract_calls
                   /\ hist'.outcome # "keyerror" ) ]_vars

\* C4: when start_processing resolves a group with no chart and no entry,
\* it uses the global fallback calibration and the group is marked as using
\* the fallback (using_fallback_calibration of the export) when the global
\* fallback exists, and the group is reported missing when it does not.
C4_FallbackMarked ==
    [][ ( StartStep /\ ~settings.dont_use_chart )
        => \A g \in GroupsOfRows :
              Unassigned(g)
              => IF calibration_file # <<>>
                 THEN /\ CalHas(group_calibrations', g)
                      /\ CalGet(group_calibrations', g).swatches = chart_swatches
                      /\ export_image_group(group_calibrations', settings.dont_use_chart,
                                            calibration_file', chart_swatches',
                                            g).using_fallback_calibration
                 ELSE hist'.outcome = "missing" ]_vars

\* no pool thread runs a chunk, none waits, no status signal is pending
Quiescent == Running(workers) = {} /\ pool_queue = <<>> /\ events = <<>>

InQueue(w) == InSeq(pool_queue, w)

\* C5: after cancel_processing no queued chunk begins (a cancelled chunk
\* that has not begun is out of the pool queue and never leaves the queued
\* state), a running chunk only leaves its current image by reporting that
\* image finished or error, and once nothing runs, waits or is pending, no
\* image record is 'started'.
C5_Cancel ==
    /\ [] ( /\ \A w \in 1..Len(workers) :
                  (workers[w].cancelled /\ workers[w].st = "queued") => ~InQueue(w)
            /\ Quiescent => \A i \in ImageRows : items[i].status # "started" )
    /\ [][ /\ Len(workers') >= Len(workers)
           /\ \A w \in 1..Len(workers) :
                 /\ (workers[w].st = "queued" /\ ~InQueue(w))
                       => workers'[w].st = "queued"
                 /\ workers[w].busy
                       => \/ workers'[w].busy
                          \/ /\ Len(events') > 0
                             /\ events'[Len(events')].image_path
                                   = workers[w].chunk[workers[w].pos]
                             /\ events'[Len(events')].status \in Terminal
                             /\ events' = Append(events, events'[Len(events')]) ]_vars

\* a run was cancelled while one chunk was correcting an image and another
\* waited in the pool: the first reported its image, the second never began,
\* and everything has come to rest
C5_Witness ==
    /\ hist.done_after_cancel
    /\ Quiescent
    /\ ~processing_active
    /\ \E w \in 1..Len(workers) : workers[w].cancelled /\ workers[w].st = "queued"
    /\ \E i \in ImageRows : items[i].status \in Terminal

\* the image paths dispatched in the latest run
RunImages == {hist.run_list[k][2] : k \in 1..Len(hist.run_list)}

\* C6: the latest run has been declared complete (processing_complete) if
\* and only if every image dispatched in that run has reported a terminal
\* status for that run.
C6_CompleteIff ==
    hist.run > 0 => ( hist.declared <=> RunImages \subseteq hist.run_terminal )

Rank(status) == IF status = "raw" THEN 0 ELSE IF status = "started" THEN 1 ELSE 2

\* the statuses of all rows move forward or stay in one step
ForwardStep ==
    /\ Len(items') = Len(items)
    /\ \A i \in 1..Len(items) :
          /\ Rank(items'[i].status) >= Rank(items[i].status)
          /\ items[i].status \in Terminal => items'[i].status = items[i].status

\* the step of browse_images, which runs reset_all_state
ResetStep == hist'.browses # hist.browses

SchemaInvalidOn == SchemaOn /\ ~validate_schema(settings.export_schema)

FolderToken == <<"[", "/", "]">>

HasBracket(s) == \E k \in 1..Len(s) : s[k] \in {"[", "]"}

\* C9: parse_schema, with the context build_context produces, replaces the
\* folder token [/] by a literal slash: the result is that of the schema
\* with "/" written in its place, and no bracket remains in it.
C9_FolderTokenIsSlash ==
    ( /\ eval.step = "parsed"
      /\ Len(eval.input) > 0
      /\ Contains(eval.schema, FolderToken) )
    => /\ <<eval.directory, eval.filename>>
             = parse_schema(Replace(eval.schema, FolderToken, <<"/">>), eval.context)
       /\ ~HasBracket(eval.directory)
       /\ ~HasBracket(eval.filename)

ParsedCam ==
    eval.step = "parsed" /\ eval.schema = SchemaAfterSep /\ eval.context = ContextCam

NameShort == <<"I", "M", "G", "0", "0", "0", "1", ".", "j", "p", "g">>
NameLong  == <<"I", "M", "G", "0", "0", "1", "0", "0", "0", "1", ".", "j", "p", "g">>

\* C10: the schema [oc+"_"][n4][e] with oc = CAM01_IMG001, n = 1 and
\* e = .jpg gives the filename IMG0001.jpg.
C10_AfterSeparatorShort == ParsedCam => eval.filename = NameShort

\* C10 as it holds: with oc = CAM01_IMG001 the filename is IMG0010001.jpg,
\* the part of oc after the separator followed by the padded number;
\* IMG0001.jpg is the filename for the context build_context makes from
\* CAM01_IMG001.NEF with image number 1, whose oc is CAM01_IMG.
C10_AfterSeparator ==
    /\ ParsedCam => eval.filename = NameLong
    /\ ( /\ eval.step = "parsed"
         /\ eval.schema = SchemaAfterSep
         /\ eval.input = ImgCam
         /\ eval.number = 1 )
       => /\ CtxGet(eval.context, <<"o", "c">>, <<>>)
                = <<"C", "A", "M", "0", "1", "_", "I", "M", "G">>
          /\ eval.filename = NameShort

\* the schema was parsed with the hand-written context
C10_Witness == ParsedCam /\ eval.filename = NameLong

\* the value the drawn key has in the context
SeparatedValue == CtxGet(eval.context, eval.key, <<>>)

\* where the separator first occurs in the value, 0 when it does not
SeparatorAt == Find(SeparatedValue, eval.separator, 1)

ParsedText == eval.directory \o <<"/">> \o eval.filename

PlainToken(K) == <<"[">> \o K \o <<"]">>

RootMinus == separator_token(<<"r">>, "-", <<"_">>)

\* C12: the substitution passes of parse_schema never match text that an
\* earlier substitution produced: a context value that holds bracketed text
\* such as [e], [n4] or [r] is found verbatim in the result when its
\* placeholder is in the schema, and the part of it that a separator token
\* selects is the directory that token names.
C12_NoRematch ==
    eval.step = "parsed"
    => /\ \A k \in 1..Len(eval.context) :
             ( /\ HasBracket(eval.context[k][2])
               /\ Contains(eval.schema, PlainToken(eval.context[k][1])) )
             => Contains(ParsedText, eval.context[k][2])
       /\ ( /\ HasBracket(CtxGet(eval.context, <<"r">>, <<>>))
            /\ MatchAt(eval.schema, 1, RootMinus \o <<"/">>) )
          => eval.directory = separator_of(CtxGet(eval.context, <<"r">>, <<>>),
                                           "-", <<"_">>)

LastOf(parts) == parts[Len(parts)]

\* the last '/'-separated segment of the substituted schema text
LastSegment == LastOf(Split(substitute(eval.schema, eval.context), <<"/">>))

EvalExt == CtxGet(eval.context, <<"e">>, DefaultExt)

SchemaHasE == Contains(eval.schema, PlainToken(<<"e">>))

\* C13: for a schema without an [e] token parse_schema appends the output
\* extension of the context to the last segment to make the filename; for a
\* schema with [e] nothing is appended and the filename is exactly the last
\* '/'-separated segment of the substituted text.
C13_ExtensionAppended ==
    (eval.step = "parsed" /\ Len(eval.schema) > 0)
    => eval.filename = IF SchemaHasE THEN LastSegment ELSE LastSegment \o EvalExt

\* C13 as it holds: without [e] the extension is appended to a last segment
\* that does not already end in .jpg, .png, .tiff or .exr, a segment that
\* does is the filename as it stands, and an empty segment gives "image"
\* plus the extension; with [e] nothing is appended, and the last segment is
\* the filename only when it ends in one of these extensions: otherwise the
\* filename is empty and that segment is the last part of the directory.
C13_ExtensionRule ==
    (eval.step = "parsed" /\ Len(eval.schema) > 0)
    => IF SchemaHasE
       THEN /\ eval.filename = IF HasKnownExtension(LastSegment) THEN LastSegment ELSE <<>>
            /\ (Len(LastSegment) > 0 /\ ~HasKnownExtension(LastSegment))
                  => EndsWith(eval.directory, LastSegment)
       ELSE eval.filename =
               IF Len(LastSegment) = 0 THEN <<"i", "m", "a", "g", "e">> \o EvalExt
               ELSE IF HasKnownExtension(LastSegment) THEN LastSegment
               ELSE LastSegment \o EvalExt

\* a schema with [e] before its last token: the segment went to the
\* directory and no filename was returned
C13_Witness ==
    /\ eval.step = "parsed"
    /\ eval.schema = SchemaExtInside
    /\ eval.input = ImgA1
    /\ eval.filename = <<>>
    /\ eval.directory = <<"a", "_", "1", ".", "j", "p", "g", "_", "1">>

Applied == eval.step = "applied" /\ ~eval.raised

\* the filename parse_schema returns for the schema and context of the state
ParsedName == parse_schema(eval.schema, eval.context)[2]

\* C14: when the last '/'-separated segment of the substituted schema is
\* empty, parse_schema returns an empty filename and apply_naming_schema
\* names the file by the original stem, '_', the sequence number padded to
\* four digits and the output extension; a non-empty filename returned by
\* parse_schema is the name of the output path as it stands.
C14_EmptySegmentFallback ==
    /\ (eval.step = "parsed" /\ Len(eval.schema) > 0 /\ Len(LastSegment) = 0)
          => eval.filename = <<>>
    /\ (Applied /\ Len(LastSegment) = 0)
          => basename(eval.path) = fallback_filename(eval.input, eval.number, OutputExt)
    /\ (Applied /\ Len(ParsedName) > 0)
          => basename(eval.path) = ParsedName

\* the image rows of a group, in list order
RowsOfGroup(g) == {i \in ImageRows : items[i].group_name = g}

\* C15: with schema naming disabled, the rename map start_processing builds
\* gives every image the number one more than the count of images of its
\* group above it in the list: within a group the numbers are exactly 1..N
\* and rise in list order.
C15_GroupNumbering ==
    [][ (StartStep /\ ~SchemaOn /\ hist'.outcome = "dispatched")
        => \A i \in ImageRows :
              /\ items[i].input_path \in DOMAIN rename_map'
              /\ rename_map'[items[i].input_path] =
                    1 + Cardinality({j \in RowsOfGroup(items[i].group_name) : j < i}) ]_vars

\* without a schema, a group of two images was numbered 1, 2 in list order
C15_Witness ==
    /\ hist.outcome = "dispatched"
    /\ ~SchemaOn
    /\ processing_active
    /\ Cardinality(ImageRows) = 2
    /\ \E i, j \in ImageRows :
          /\ i < j
          /\ items[i].group_name = items[j].group_name
          /\ rename_map = (items[i].input_path :> 1) @@ (items[j].input_path :> 2)

MinOf2(a, b) == IF a <= b THEN a ELSE b

RECURSIVE Concat(_)
Concat(seqs) == IF Len(seqs) = 0 THEN <<>> ELSE Head(seqs) \o Concat(Tail(seqs))

GroupSize == Len(eval.group_images)

ChunkSize == MaxOf2(1, GroupSize \div eval.thr)

\* C16: for every group size g >= 1 and worker count w >= 1 the group's
\* images are split into exactly min(g, w) contiguous chunks.
C16_MinChunks ==
    eval.step = "chunked"
    => /\ Len(eval.chunks) = MinOf2(GroupSize, eval.thr)
       /\ Concat(eval.chunks) = eval.group_images

\* C16 as it holds: the chunks are contiguous and in order and cover the
\* group; with size = max(1, g // w) every chunk but the last has size
\* images and the last has 1..size, so there are ceil(g / size) chunks: at
\* least min(g, w), exactly min(g, w) when g <= w or w divides g, and more
\* than w otherwise.
C16_ChunksBySize ==
    eval.step = "chunked"
    => /\ Concat(eval.chunks) = eval.group_images
       /\ Len(eval.chunks) = (GroupSize + ChunkSize - 1) \div ChunkSize
       /\ \A k \in 1..Len(eval.chunks) :
             /\ Len(eval.chunks[k]) \in 1..ChunkSize
             /\ k < Len(eval.chunks) => Len(eval.chunks[k]) = ChunkSize
       /\ Len(eval.chunks) >= MinOf2(GroupSize, eval.thr)
       /\ IF GroupSize <= eval.thr \/ GroupSize % eval.thr = 0
          THEN Len(eval.chunks) = MinOf2(GroupSize, eval.thr)
          ELSE Len(eval.chunks) > eval.thr

\* five images for two workers: three chunks, of sizes 2, 2 and 1
C16_Witness ==
    /\ eval.step = "chunked"
    /\ GroupSize = 5
    /\ eval.thr = 2
    /\ eval.chunks = << <<ImageNo(1), ImageNo(2)>>, <<ImageNo(3), ImageNo(4)>>,
                        <<ImageNo(5)>> >>

\* the files of the folder that the collection visits
Collected(f) ==
    IF eval.rules.use_import_rules
    THEN Len(f.relative_path) = 0 \/ eval.rules.look_in_subfolders
    ELSE Len(f.relative_path) = 0

\* the places of a path in the collected groups
PlacesOf(p) ==
    {gk \in (1..Len(eval.image_groups)) \X (1..Len(FolderFiles)) :
        /\ gk[2] <= Len(eval.image_groups[gk[1]].paths)
        /\ eval.image_groups[gk[1]].paths[gk[2]] = p}

\* the one group that holds the path
GroupHolding(p) ==
    eval.image_groups[(CHOOSE gk \in PlacesOf(p) : TRUE)[1]].name

FirstComponent(relative_path) == Split(relative_path, <<"/">>)[1]

BeforeFirst(text, sep) ==
    IF Contains(text, sep) THEN SubSeq(text, 1, Find(text, sep, 1) - 1)
    ELSE splitext_root(text)

\* the group the precedence of the claim gives a file, for the separator
\* as it is configured
GroupByPrecedence(f) ==
    IF eval.rules.group_by_subfolder /\ Len(f.relative_path) > 0
    THEN FirstComponent(f.relative_path)
    ELSE IF eval.rules.group_by_prefix /\ Len(eval.rules.prefix_string) > 0
    THEN BeforeFirst(f.item, eval.rules.prefix_string)
    ELSE AllImagesName

\* the same with the separator stripped of blanks, a blank separator
\* counting as one that does not occur
GroupByStrippedPrecedence(f) ==
    IF eval.rules.group_by_subfolder /\ Len(f.relative_path) > 0
    THEN FirstComponent(f.relative_path)
    ELSE IF eval.rules.group_by_prefix /\ Len(eval.rules.prefix_string) > 0
    THEN IF Len(strip(eval.rules.prefix_string)) > 0
         THEN BeforeFirst(f.item, strip(eval.rules.prefix_string))
         ELSE splitext_root(f.item)
    ELSE AllImagesName

\* C17: every collected image is in exactly one group, once, and that group
\* is given by the precedence (1) subfolder grouping with a non-empty
\* relative path: the first path component, (2) prefix grouping with a
\* non-empty separator: the filename before the first occurrence of the
\* separator, or without its extension when the separator does not occur,
\* (3) 'All Images'.
C17_GroupByPrecedence ==
    eval.step = "collected"
    => \A k \in 1..Len(FolderFiles) :
          Collected(FolderFiles[k])
          => /\ Cardinality(PlacesOf(item_path_of(RawDir, FolderFiles[k]))) = 1
             /\ GroupHolding(item_path_of(RawDir, FolderFiles[k]))
                   = GroupByPrecedence(FolderFiles[k])

\* C17 as it holds: every collected image is in exactly one group, once;
\* with import rules enabled the group is given by the precedence, the
\* separator being the configured prefix string stripped of blanks (a string
\* of blanks alone groups by the filename without extension); with import
\* rules disabled every image of the folder is in the one group named after
\* the folder.
C17_GroupByRules ==
    eval.step = "collected"
    => \A k \in 1..Len(FolderFiles) :
          IF Collected(FolderFiles[k])
          THEN /\ Cardinality(PlacesOf(item_path_of(RawDir, FolderFiles[k]))) = 1
               /\ GroupHolding(item_path_of(RawDir, FolderFiles[k]))
                     = IF eval.rules.use_import_rules
                       THEN GroupByStrippedPrecedence(FolderFiles[k])
                       ELSE basename(RawDir)
          ELSE PlacesOf(item_path_of(RawDir, FolderFiles[k])) = {}

\* both groupings enabled: the file in the subfolder is grouped by its first
\* path component, the files of the folder itself by their prefix
C17_Witness ==
    /\ eval.step = "collected"
    /\ eval.rules.group_by_subfolder
    /\ eval.rules.prefix_string = <<" ", "_">>
    /\ eval.image_groups =
          << [name |-> <<"a">>, paths |-> <<RawDir \o <<"/">> \o ImgA1>>],
             [name |-> <<"c">>, paths |-> <<RawDir \o <<"/">> \o ImgLoose>>],
             [name |-> <<"s", "u", "b">>,
              paths |-> <<RawDir \o <<"/", "s", "u", "b", "/", "b", "_", "x", "/">> \o ImgB1>>] >>

\* the assignments held in chart_groups
ChartAssignments == {chart_groups[k] : k \in 1..Len(chart_groups)}

\* C18: after any sequence of set_selected_as_chart calls chart_groups holds
\* at most one assignment for every group, and it is the image most
\* recently assigned to that group.
C18_OneChartPerGroup ==
    /\ \A j, k \in 1..Len(chart_groups) :
          chart_groups[j][2] = chart_groups[k][2] => j = k
    /\ ChartAssignments = hist.last_chart

\* the chart of a group was assigned twice, to one image and then to the
\* other: the entry detected on the first is still in the registry
C18_Witness ==
    /\ Len(chart_groups) = 1
    /\ Cardinality(ImageRows) = 2
    /\ CalHas(group_calibrations, chart_groups[1][2])
    /\ CalGet(group_calibrations, chart_groups[1][2]).swatches.src \in ImagePaths
    /\ CalGet(group_calibrations, chart_groups[1][2]).swatches.src # chart_groups[1][1]
    /\ \E i \in ImageRows : items[i].input_path = chart_groups[1][1] /\ items[i].chart

\* C19: when a new chart is assigned to a group that has a calibration
\* entry, the old entry is destroyed or replaced, whether detection on the
\* new chart succeeds, fails or is deferred: the entry a group with an
\* assigned chart has in the registry is never one measured on another
\* image of the list.
C19_NoStaleEntry ==
    \A k \in 1..Len(chart_groups) :
       CalHas(group_calibrations, chart_groups[k][2])
       => LET src == CalGet(group_calibrations, chart_groups[k][2]).swatches.src
          IN  src \in ImagePaths => src = chart_groups[k][1]

\* the workers the step has created
NewWorkers == {w \in 1..Len(workers') : w > Len(workers)}

\* C20: with the 'don't use chart' option set, start_processing reports no
\* group as missing a calibration, every chunk it dispatches carries no
\* calibration, and the calibration registry is left as it was, whatever
\* charts, entries and fallback there are.
C20_DisabledBypasses ==
    [][ (StartStep /\ settings.dont_use_chart)
        => ( /\ hist'.outcome # "missing"
             /\ \A w \in NewWorkers : workers'[w].swatches = NoSwatches
             /\ group_calibrations' = group_calibrations ) ]_vars

\* ------------------------------------------------------------------------
\* C21: every calibration entry stored for a group, by chart detection, by
\* extraction during processing or by the default-chart fallback, holds
\* exactly 24 RGB triples
\* ------------------------------------------------------------------------
C21_TwentyFourRows ==
    \A k \in 1..Len(group_calibrations) :
        group_calibrations[k].swatches.count = SwatchRows

\* ------------------------------------------------------------------------
\* C22: a RAW preview load requested while another load is in flight
\* supersedes it; without any further user action the pending request is
\* eventually served, that is, its load is started (which clears
\* pending_raw_path). The user's actions are counted by hist.ops: the
\* request must be served while the user could still act and does not.
\* ------------------------------------------------------------------------
RawPaths == {ImgA1, ImgA2, ImgB1}

C22_PendingLoadStarts ==
    \A path \in RawPaths :
        (preview.pending_raw_path = path /\ preview.loads # <<>>)
            ~> (preview.pending_raw_path # path \/ hist.ops = MaxOps)

\* ------------------------------------------------------------------------
\* C29: a loaded RAW array is stored as current_raw_array only if it was
\* loaded from the path held in current_raw_path at that moment
\* ------------------------------------------------------------------------
ArrayStored ==
    /\ preview'.current_raw_array # preview.current_raw_array
    /\ preview'.current_raw_array # <<>>

C29_StoredFromCurrentPath ==
    [][ArrayStored => preview'.current_raw_array = preview'.current_raw_path]_vars

\* ------------------------------------------------------------------------
\* C23: when a value of the document is not JSON-serializable, the export
\* reports the error and no partial file is written: the target file is
\* absent or unchanged, or holds the complete document
\* ------------------------------------------------------------------------
Unserializable ==
    \E k \in 1..Len(eval.document) : ~eval.document[k].serializable

C23_NoPartialFile ==
    (eval.step = "exported" /\ Unserializable)
    => /\ eval.reported
       /\ \/ eval.file \in ExportTargets
          \/ eval.file = complete_document(eval.document)

\* ------------------------------------------------------------------------
\* C24: in the export document a group without its own calibration entry
\* receives only the default calibration that was loaded independently of
\* any group, flagged as fallback, never the entry of another group
\* ------------------------------------------------------------------------
ExportedGroup(g) ==
    export_image_group(group_calibrations, settings.dont_use_chart,
                       calibration_file, chart_swatches, g)

C24_FallbackIsDefault ==
    \A g \in GroupsOfRows :
        (~CalHas(group_calibrations, g) /\ ExportedGroup(g).has_calibration)
        => /\ ExportedGroup(g).using_fallback_calibration
           /\ ExportedGroup(g).chart_swatches
                 = PrecalcSwatches(settings.use_precalc, settings.precalc_rows)

\* ------------------------------------------------------------------------
\* C25: for every group and every worker count >= 1 the chunks dispatched
\* for the group partition its image list: every image is in exactly one
\* chunk, no chunk is empty, and the chunks concatenated in dispatch order
\* give the list back
\* ------------------------------------------------------------------------
ChunkPlaces(image) ==
    { <<k, j>> \in (1..Len(eval.chunks)) \X (1..GroupSize) :
        j <= Len(eval.chunks[k]) /\ eval.chunks[k][j] = image }

C25_ChunksPartition ==
    eval.step = "chunked"
    => /\ \A i \in 1..GroupSize : Cardinality(ChunkPlaces(eval.group_images[i])) = 1
       /\ \A k \in 1..Len(eval.chunks) : eval.chunks[k] # <<>>
       /\ Concat(eval.chunks) = eval.group_images

\* four images for three workers: four chunks of one image
C25_Witness ==
    /\ eval.step = "chunked"
    /\ GroupSize = 4
    /\ eval.thr = 3
    /\ Len(eval.chunks) = 4
    /\ \A k \in 1..4 : eval.chunks[k] = <<ImageNo(k)>>

\* ------------------------------------------------------------------------
\* C26: processing_active is true only while a dispatched run is under way:
\* after a start_processing that returned without dispatching (calibrations
\* missing, or no image in the list) processing_active is false
\* ------------------------------------------------------------------------
C26_IdleAfterNoDispatch ==
    processing_active => hist.outcome \notin {"missing", "empty"}

\* the images of the numbered groups as <<group_name, image_path>>, the path
\* the schema gives the k-th of them with its number of the rename map, and
\* the directory found for it with the provisional number 1
NumberedPairs == flatten_groups(eval.image_groups, 1)

FinalPath(k) ==
    apply_naming_schema(eval.schema, NumberedPairs[k][2], OutDir, CustomName,
                        eval.numbers[NumberedPairs[k][2]], OutputExt,
                        basename(RawDir), NumberedPairs[k][1]).path

ProvisionalDir(k) ==
    dirname(dummy_output(eval.schema, NumberedPairs[k][1], NumberedPairs[k][2]).path)

Numbered == eval.step = "numbered" /\ validate_schema(eval.schema)

\* ------------------------------------------------------------------------
\* C27: for every schema accepted by validate_schema and every image, the
\* directory of the final output path (the schema applied with the image's
\* number of the rename map) is the directory that was found with the
\* provisional number 1 to choose the image's numbering scope
\* ------------------------------------------------------------------------
C27_FinalDirIsProvisional ==
    Numbered
    => \A k \in 1..Len(NumberedPairs) : dirname(FinalPath(k)) = ProvisionalDir(k)

\* ------------------------------------------------------------------------
\* C28: under a schema accepted by validate_schema, two distinct images of
\* one run have distinct final output paths
\* ------------------------------------------------------------------------
C28_DistinctOutputs ==
    Numbered
    => \A j, k \in 1..Len(NumberedPairs) : j < k => FinalPath(j) # FinalPath(k)

\* ------------------------------------------------------------------------
\* C30: for every schema that contains no [e] token and every context,
\* parse_schema returns a non-empty filename, so apply_naming_schema never
\* uses its synthesized fallback filename for such a schema
\* ------------------------------------------------------------------------
C30_NamedWithoutE ==
    /\ (eval.step = "parsed" /\ ~SchemaHasE) => eval.filename # <<>>
    /\ (Applied /\ ~SchemaHasE)
          => basename(eval.path) # fallback_filename(eval.input, eval.number, OutputExt)

\* C30 as it holds: the empty schema is returned as ('', '') by parse_schema
\* and refused by apply_naming_schema; every other schema without [e] gets a
\* non-empty filename, which apply_naming_schema keeps
C30_NamedWithoutEUnlessEmpty ==
    /\ (eval.step = "parsed" /\ ~SchemaHasE)
          => IF eval.schema = <<>>
             THEN eval.filename = <<>> /\ eval.directory = <<>>
             ELSE eval.filename # <<>>
    /\ (eval.step = "applied" /\ ~SchemaHasE)
          => IF eval.schema = <<>>
             THEN eval.raised
             ELSE eval.raised
                  \/ basename(eval.path) = parse_schema(eval.schema, eval.context)[2]

\* the schema '[s]/' was parsed to the filename 'image.jpg'
C30_Witness ==
    /\ eval.step = "parsed"
    /\ eval.schema = SchemaDirOnly
    /\ eval.filename = <<"i", "m", "a", "g", "e">> \o OutputExt

====
